---- MODULE Spec2Model ----
(***************************************************************************)
(* State-machine model of the legend-saga RabbitMQ client library:         *)
(* topology builder, event publish / dispatch, the retry engine (nack with *)
(* fixed delay and with Fibonacci backoff), the saga step reply and the    *)
(* audit emitter, the session (connection, role channels, health check,   *)
(* reconnect, cleanup), the shared publish channel and the audit service.  *)
(* The broker (exchanges, queues, bindings, header and direct routing, TTL *)
(* expiry and dead-lettering) is modelled as far as the library's calls    *)
(* depend on it.                                                           *)
(***************************************************************************)
EXTENDS Integers, Sequences, FiniteSets, TLC

(***************************************************************************)
(* Bounds of the model.                                                    *)
(***************************************************************************)
MaxPublish == 1      \* publishes to matching_exchange in one behaviour
MaxRetries == 4      \* largest max_retries a handler passes (retry engine)
FlowRetries == 1     \* largest max_retries a handler passes (event flow)
MaxOccurrence == 3   \* largest max_occurrence a handler passes
MaxCalls == 2        \* ack / nack calls a handler makes on one context
MaxPendingAudit == 1 \* spawned audit tasks not yet run
MaxSteps == 1        \* saga steps sent by the orchestrator

(***************************************************************************)
(* Names: queue_consumer_props.rs, connection.rs, events.rs                *)
(***************************************************************************)
MATCHING == "matching_exchange"
MATCHING_REQUEUE == "matching_requeue_exchange"
REQUEUE == "requeue_exchange"
COMMANDS == "commands_exchange"
AUDIT == "audit_exchange"
REPLY_TO_SAGA == "reply_to_saga"
COMMENCE_SAGA == "commence_saga"
AUDIT_RECEIVED_COMMANDS == "audit_received_commands"
AUDIT_PROCESSED_COMMANDS == "audit_processed_commands"
AUDIT_DEAD_LETTER_COMMANDS == "audit_dead_letter_commands"

\* AvailableMicroservices, kebab-case (two of the variants)
AvailableMicroservices == {"auth", "social"}

\* MicroserviceEvent::iter(), in declaration order (two of the variants)
MicroserviceEventIter == <<"test.image", "auth.deleted_user">>

MicroserviceEvent == {MicroserviceEventIter[i] : i \in 1..Len(MicroserviceEventIter)}

\* str::to_uppercase on the event tags
ToUppercase(s) ==
  CASE s = "test.image" -> "TEST.IMAGE"
    [] s = "auth.deleted_user" -> "AUTH.DELETED_USER"
    [] OTHER -> s

EventsQueueName(microservice) == microservice \o "_match_commands"

SagaQueueName(microservice) == microservice \o "_saga_commands"

(***************************************************************************)
(* AMQP field tables: functions from header keys to typed values.          *)
(***************************************************************************)
LongString(str) == [t |-> "LongString", s |-> str, n |-> 0]

LongLongInt(num) == [t |-> "LongLongInt", s |-> "", n |-> num]

FieldTableDefault == [k \in {} |-> LongString("")]

Insert(table, key, value) ==
  [k \in DOMAIN table \cup {key} |-> IF k = key THEN value ELSE table[k]]

Remove(table, key) == [k \in DOMAIN table \ {key} |-> table[k]]

(***************************************************************************)
(* Broker topology: exchanges, queues and bindings, and the declare / bind *)
(* / unbind / delete methods the topology builder calls.                   *)
(***************************************************************************)
NoTopology == [exchanges |-> {}, queues |-> {}, bindings |-> {}]

ExchangeDeclare(t, name, kind) ==
  [t EXCEPT !.exchanges = @ \cup {[name |-> name, kind |-> kind]}]

QueueDeclare(t, name, args) ==
  [t EXCEPT !.queues = @ \cup {[name |-> name, args |-> args]}]

Binding(src, dst, dkind, key, args) ==
  [src |-> src, dst |-> dst, dkind |-> dkind, key |-> key, args |-> args]

ExchangeBind(t, destination, source, key, args) ==
  [t EXCEPT !.bindings = @ \cup {Binding(source, destination, "exchange", key, args)}]

QueueBindMutant(t, queue, exchange, key, args) ==
  LET b == Binding(exchange, queue, "queue", key, args)
  IN  [t EXCEPT !.bindings = IF b \in @ THEN @ \ {b} ELSE @ \cup {b}]

QueueBind(t, queue, exchange, key, args) ==
  [t EXCEPT !.bindings = @ \cup {Binding(exchange, queue, "queue", key, args)}]

QueueUnbind(t, queue, exchange, key, args) ==
  [t EXCEPT !.bindings = @ \ {Binding(exchange, queue, "queue", key, args)}]

\* exchange.delete removes the exchange with every binding from or to it
ExchangeDelete(t, name) ==
  [t EXCEPT !.exchanges = {e \in @ : e.name # name},
            !.bindings = {b \in @ : b.src # name
                                    /\ ~(b.dkind = "exchange" /\ b.dst = name)}]

ExchangeNames(t) == {e.name : e \in t.exchanges}

QueueNames(t) == {q.name : q \in t.queues}

HeaderEvent(event_str) ==
  Insert(FieldTableDefault, ToUppercase(event_str), LongString(event_str))

\* create_header_consumers: the body of the loop, for one event of the enum
HeaderConsumersBindMutant(t, queue_name, events, event) ==
  LET event_str == event
      header_event == HeaderEvent(event_str)
      requeue_queue == queue_name \o "_matching_requeue"
      requeue_exchange == event_str \o "_requeue"
      micro_event_exchange == event_str \o "_" \o queue_name
      headers_args == Insert(Insert(header_event, "micro", LongString(queue_name)),
                             "x-match", LongString("all"))
      bind_args == Insert(Insert(header_event, "all-micro", LongString("yes")),
                          "x-match", LongString("all"))
      t1 == ExchangeDeclare(t, event_str, "headers")
      t2 == ExchangeBind(t1, event_str, MATCHING, "", bind_args)
      t3 == ExchangeDeclare(t2, requeue_exchange, "headers")
      t4 == ExchangeBind(t3, requeue_exchange, MATCHING_REQUEUE, "", header_event)
      b1 == QueueBind(t4, queue_name, event_str, "", header_event)
      b2 == QueueBind(b1, requeue_queue, requeue_exchange, "", headers_args)
      b3 == ExchangeDeclare(b2, micro_event_exchange, "headers")
      b4 == ExchangeBind(b3, micro_event_exchange, MATCHING, "", headers_args)
      b5 == QueueBind(b4, queue_name, micro_event_exchange, "", headers_args)
  IN  IF event \in events THEN b5 ELSE t4

HeaderConsumersEvent(t, queue_name, events, event) ==
  LET event_str == event
      header_event == HeaderEvent(event_str)
      requeue_queue == queue_name \o "_matching_requeue"
      requeue_exchange == event_str \o "_requeue"
      micro_event_exchange == event_str \o "_" \o queue_name
      headers_args == Insert(Insert(header_event, "micro", LongString(queue_name)),
                             "x-match", LongString("all"))
      bind_args == Insert(Insert(header_event, "all-micro", LongString("yes")),
                          "x-match", LongString("all"))
      t1 == ExchangeDeclare(t, event_str, "headers")
      t2 == ExchangeBind(t1, event_str, MATCHING, "", bind_args)
      t3 == ExchangeDeclare(t2, requeue_exchange, "headers")
      t4 == ExchangeBind(t3, requeue_exchange, MATCHING_REQUEUE, "", header_event)
      \* events.contains(&event)
      b1 == QueueBind(t4, queue_name, event_str, "", header_event)
      b2 == QueueBind(b1, requeue_queue, requeue_exchange, "", headers_args)
      b3 == ExchangeDeclare(b2, micro_event_exchange, "headers")
      b4 == ExchangeBind(b3, micro_event_exchange, MATCHING, "", headers_args)
      b5 == QueueBind(b4, queue_name, micro_event_exchange, "", headers_args)
      \* else
      u1 == QueueUnbind(t4, queue_name, event_str, "", header_event)
      u2 == QueueUnbind(u1, requeue_queue, requeue_exchange, "", headers_args)
      u3 == ExchangeDelete(u2, micro_event_exchange)
  IN  IF event \in events THEN b5 ELSE u3

RECURSIVE HeaderConsumersLoop(_, _, _, _)
HeaderConsumersLoop(t, queue_name, events, i) ==
  IF i > Len(MicroserviceEventIter) THEN t
  ELSE HeaderConsumersLoop(
         HeaderConsumersEvent(t, queue_name, events, MicroserviceEventIter[i]),
         queue_name, events, i + 1)

CreateHeaderConsumers(t, queue_name, events) ==
  LET requeue_queue == queue_name \o "_matching_requeue"
      requeue_args == Insert(FieldTableDefault, "x-dead-letter-exchange",
                             LongString(MATCHING))
      t1 == ExchangeDeclare(t, MATCHING, "headers")
      t2 == ExchangeDeclare(t1, MATCHING_REQUEUE, "headers")
      t3 == QueueDeclare(t2, queue_name, FieldTableDefault)
      t4 == QueueDeclare(t3, requeue_queue, requeue_args)
  IN  HeaderConsumersLoop(t4, queue_name, events, 1)

\* create_consumers, for one QueueConsumerProps
CreateConsumer(t, queue_name, exchange) ==
  LET requeue_queue == queue_name \o "_requeue"
      routing_key == queue_name \o "_routing_key"
      requeue_args == Insert(FieldTableDefault, "x-dead-letter-exchange",
                             LongString(exchange))
      t1 == ExchangeDeclare(t, exchange, "direct")
      t2 == QueueDeclare(t1, queue_name, FieldTableDefault)
      t3 == QueueBind(t2, queue_name, exchange, routing_key, FieldTableDefault)
      t4 == ExchangeDeclare(t3, REQUEUE, "direct")
      t5 == QueueDeclare(t4, requeue_queue, requeue_args)
  IN  QueueBind(t5, requeue_queue, REQUEUE, routing_key, FieldTableDefault)

CreateAuditLoggingResources(t) ==
  LET t1 == ExchangeDeclare(t, AUDIT, "direct")
      t2 == QueueDeclare(t1, AUDIT_RECEIVED_COMMANDS, FieldTableDefault)
      t3 == QueueDeclare(t2, AUDIT_PROCESSED_COMMANDS, FieldTableDefault)
      t4 == QueueDeclare(t3, AUDIT_DEAD_LETTER_COMMANDS, FieldTableDefault)
      t5 == QueueBind(t4, AUDIT_RECEIVED_COMMANDS, AUDIT, "audit.received",
                      FieldTableDefault)
      t6 == QueueBind(t5, AUDIT_PROCESSED_COMMANDS, AUDIT, "audit.processed",
                      FieldTableDefault)
  IN  QueueBind(t6, AUDIT_DEAD_LETTER_COMMANDS, AUDIT, "audit.dead_letter",
                FieldTableDefault)

(***************************************************************************)
(* Broker routing: headers exchanges match the binding arguments against   *)
(* the message headers (x-match = all, arguments starting with x- are not  *)
(* matched), direct exchanges match the routing key, the default exchange  *)
(* routes to the queue named by the routing key.                           *)
(***************************************************************************)
IsXArg(key) == Len(key) >= 2 /\ SubSeq(key, 1, 2) = "x-"

HeadersMatch(args, headers) ==
  \A k \in DOMAIN args :
    IsXArg(k) \/ (k \in DOMAIN headers /\ headers[k] = args[k])

ExchangeKind(t, name) ==
  IF \E e \in t.exchanges : e.name = name
  THEN (CHOOSE e \in t.exchanges : e.name = name).kind
  ELSE "none"

Matching(t, exchange, key, headers) ==
  {b \in t.bindings :
     /\ b.src = exchange
     /\ IF ExchangeKind(t, exchange) = "headers" THEN HeadersMatch(b.args, headers)
        ELSE IF ExchangeKind(t, exchange) = "direct" THEN b.key = key
        ELSE FALSE}

RECURSIVE Reach(_, _, _, _, _)
Reach(t, frontier, visited, key, headers) ==
  IF frontier = {} THEN visited
  ELSE LET next == {b.dst : b \in {c \in UNION {Matching(t, x, key, headers) : x \in frontier} :
                                      c.dkind = "exchange"}} \ visited
       IN  Reach(t, next, visited \cup next, key, headers)

\* the queues a message published to `exchange` is enqueued in (once in each)
Route(t, exchange, key, headers) ==
  IF exchange = "" THEN {key} \cap QueueNames(t)
  ELSE {b.dst : b \in {c \in UNION {Matching(t, x, key, headers) :
                                      x \in Reach(t, {exchange}, {exchange}, key, headers)} :
                         c.dkind = "queue"}}

(***************************************************************************)
(* Option<T>                                                               *)
(***************************************************************************)
None == [some |-> FALSE, v |-> 0]

Some(x) == [some |-> TRUE, v |-> x]

NoneStr == [some |-> FALSE, v |-> ""]

(***************************************************************************)
(* fibo.rs                                                                 *)
(***************************************************************************)
RECURSIVE FibLoop(_, _, _, _)
FibLoop(a, b, i, n) == IF i > n THEN b ELSE FibLoop(b, a + b, i + 1, n)

fibonacciMutant(n) == IF n = 0 THEN 0 ELSE n

fibonacci(n) ==
  IF n = 0 THEN 0
  ELSE IF n = 1 THEN 1
  ELSE FibLoop(0, 1, 2, n)

(***************************************************************************)
(* nack.rs: the retry engine.  A delivery is a MyDelivery record; a nack   *)
(* yields the count, the delay in milliseconds, the occurrence and the     *)
(* requeue publish (or none when the retries are exhausted).               *)
(***************************************************************************)
NoPublish == [publish |-> FALSE]

HeaderInt(headers, key) ==
  IF key \in DOMAIN headers /\ headers[key].t = "LongLongInt"
  THEN headers[key].n
  ELSE 0

calculate_retry_countMutant(delivery) == HeaderInt(delivery.headers, "x-retry-count")

calculate_retry_count(delivery) == HeaderInt(delivery.headers, "x-retry-count") + 1

publish_requeueMutant(delivery, queue_name, delay, headers) ==
  [publish |-> TRUE,
   exchange |-> IF delivery.exchange = MATCHING THEN MATCHING_REQUEUE ELSE REQUEUE,
   routing_key |-> IF delivery.exchange = MATCHING THEN ""
                   ELSE queue_name \o "_routing_key",
   data |-> delivery.data,
   headers |-> IF delivery.exchange = MATCHING
               THEN Insert(headers, "micro", LongString(queue_name))
               ELSE headers,
   expiration |-> Some(ToString(delay)),
   app_id |-> Some(delivery.app_id.v),
   message_id |-> Some(delivery.message_id.v),
   content_type |-> "",
   delivery_mode |-> 2]

publish_requeue(delivery, queue_name, delay, headers) ==
  [publish |-> TRUE,
   exchange |-> IF delivery.exchange = MATCHING THEN MATCHING_REQUEUE ELSE REQUEUE,
   routing_key |-> IF delivery.exchange = MATCHING THEN ""
                   ELSE queue_name \o "_routing_key",
   data |-> delivery.data,
   headers |-> IF delivery.exchange = MATCHING
               THEN Insert(Remove(headers, "all-micro"), "micro", LongString(queue_name))
               ELSE headers,
   \* delay.as_millis().to_string()
   expiration |-> Some(ToString(delay)),
   \* unwrap_or_default(): a missing id is republished as the empty string
   app_id |-> Some(delivery.app_id.v),
   message_id |-> Some(delivery.message_id.v),
   content_type |-> "",
   delivery_mode |-> 2]

with_delayMutant(delivery, queue_name, delay, max_retries) ==
  LET count == calculate_retry_count(delivery)
      headers == Insert(delivery.headers, "x-retry-count", LongLongInt(count))
  IN  [count |-> count, delay |-> delay, occurrence |-> 0,
       requeue |-> IF count >= max_retries THEN NoPublish
                   ELSE publish_requeue(delivery, queue_name, delay, headers)]

with_delay(delivery, queue_name, delay, max_retries) ==
  LET count == calculate_retry_count(delivery)
      headers == Insert(delivery.headers, "x-retry-count", LongLongInt(count))
  IN  [count |-> count, delay |-> delay, occurrence |-> 0,
       requeue |-> IF count > max_retries THEN NoPublish
                   ELSE publish_requeue(delivery, queue_name, delay, headers)]

with_fibonacci_strategy(delivery, queue_name, max_occurrence, max_retries) ==
  LET count == calculate_retry_count(delivery)
      stored == HeaderInt(delivery.headers, "x-occurrence")
      occurrence == IF stored >= max_occurrence THEN 1 ELSE stored + 1
      \* Duration::from_secs(fibonacci(occurrence)), in milliseconds
      delay == fibonacci(occurrence) * 1000
      headers == Insert(Insert(delivery.headers, "x-retry-count", LongLongInt(count)),
                        "x-occurrence", LongLongInt(occurrence))
  IN  [count |-> count, delay |-> delay, occurrence |-> occurrence,
       requeue |-> IF count > max_retries THEN NoPublish
                   ELSE publish_requeue(delivery, queue_name, delay, headers)]

(***************************************************************************)
(* State                                                                   *)
(***************************************************************************)
VARIABLES
  topology,    \* the broker's exchanges, queues and bindings
  declared,    \* per service: the events list of the last create_header_consumers
  queues,      \* per queue name: the messages waiting in it, oldest first
  channel,     \* per service: its events channel (open, next delivery tag, unacked tags)
  handler,     \* per service: the EventHandler the registered handler holds, if any
  uuid,        \* Uuid::now_v7(): the next fresh id
  published,   \* number of publishes to matching_exchange so far
  policy,      \* the arguments the handlers pass: max_retries, max_occurrence
  auditTasks,  \* spawned publish_audit_event tasks that have not run yet
  auditLog,    \* audit payloads published to audit_exchange
  routed,      \* per published message-id: the tag and the queues it was enqueued in
  observed,    \* per service: (event_id, x-retry-count) of each dispatched delivery
  ended,       \* nacks that returned without republishing
  saga_channel,    \* per service: its saga channel
  command_handler, \* per service: the CommandHandler the registered handler holds
  steps,           \* number of saga steps the orchestrator has sent
  CONNECTION,  \* the process-wide connection: its identity and whether it is connected
  rwlock,      \* the RwLock around CONNECTION: the tasks reading, the task writing
  client,      \* the fields of RabbitMQClient every clone shares
  mutex,       \* per Mutex of the client: the task holding its guard (0: free)
  tasks,       \* per task: the call it runs and where it is in it
  consumers,   \* basic_consume registrations: consumer tag, queue, channel
  emitter,     \* the Emitter: registered senders, their receivers' buffers
  PUBLISH_CHANNEL  \* the process-wide cell of the shared publish channel

vars == <<topology, declared, queues, channel, handler, uuid, published, policy,
          auditTasks, auditLog, routed, observed, ended,
          saga_channel, command_handler, steps,
          CONNECTION, rwlock, client, mutex, tasks, consumers, emitter, PUBLISH_CHANNEL>>

brokerVars == <<topology, declared, queues, channel, handler, uuid, published, policy,
                auditTasks, auditLog, routed, observed, ended,
                saga_channel, command_handler, steps>>

clientVars == <<CONNECTION, rwlock, client, mutex, tasks, consumers, emitter,
                PUBLISH_CHANNEL>>

sagaVars == <<saga_channel, command_handler, steps>>

flowVars == <<queues, channel, handler, uuid, published, policy,
              auditTasks, auditLog, routed, observed, ended, sagaVars, clientVars>>

Undeclared == {"<undeclared>"}

NoHandler == [held |-> FALSE]

\* PUBLISH_CHANNEL before the first set: an empty OnceCell
NoPublishChannel ==
  [set |-> FALSE, arc |-> 0, channel |-> [id |-> 0, conn |-> 0, closed |-> TRUE, qos |-> 0]]

\* what a message carries for the properties below, not on the wire: the number
\* of nacks that led to it, the x-retry-count of the delivery nacked last, the
\* number of leading Fibonacci nacks, the queue of the service that nacked it,
\* and the correlation id it got at its publish or its first dispatch (0: none)
NoChain == [n |-> 0, seen |-> 0, fib |-> 0, owner |-> "", corr |-> 0]

NewChannel == [open |-> TRUE, next_tag |-> 1, unacked |-> {}]

InitSessionIdle ==
  /\ CONNECTION = [id |-> 1, closed |-> {}, channels |-> 0, closes |-> 0]
  /\ rwlock = [readers |-> {}, writer |-> 0]
  /\ client = [reconnecting |-> FALSE]
  /\ mutex = [l \in {} |-> 0]
  /\ tasks = <<>>
  /\ consumers = {}
  /\ PUBLISH_CHANNEL = NoPublishChannel

InitClientIdle ==
  /\ InitSessionIdle
  /\ emitter = [events |-> <<>>]

InitSagaIdle ==
  /\ InitClientIdle
  /\ saga_channel = [m \in AvailableMicroservices |-> NewChannel]
  /\ command_handler = [m \in AvailableMicroservices |-> NoHandler]
  /\ steps = 0

InitFlowIdle ==
  /\ queues = [q \in {} |-> <<>>]
  /\ channel = [m \in AvailableMicroservices |-> NewChannel]
  /\ handler = [m \in AvailableMicroservices |-> NoHandler]
  /\ uuid = 1
  /\ published = 0
  /\ policy = [max_retries |-> 0, max_occurrence |-> 1]
  /\ auditTasks = {}
  /\ auditLog = {}
  /\ routed = {}
  /\ observed = [m \in AvailableMicroservices |-> <<>>]
  /\ ended = {}
  /\ InitSagaIdle

(***************************************************************************)
(* Topology builder                                                        *)
(***************************************************************************)
InitTopo ==
  /\ topology = NoTopology
  /\ declared = [m \in AvailableMicroservices |-> Undeclared]
  /\ InitFlowIdle

RunCreateHeaderConsumers(m, events) ==
  /\ topology' = CreateHeaderConsumers(topology, EventsQueueName(m), events)
  /\ declared' = [declared EXCEPT ![m] = events]
  /\ UNCHANGED flowVars

RunCreateConsumers(m) ==
  /\ topology' = CreateConsumer(topology, SagaQueueName(m), COMMANDS)
  /\ UNCHANGED <<declared, flowVars>>

RunCreateAuditLoggingResources ==
  /\ topology' = CreateAuditLoggingResources(topology)
  /\ UNCHANGED <<declared, flowVars>>

NextTopo ==
  \/ \E m \in AvailableMicroservices, events \in SUBSET MicroserviceEvent :
       RunCreateHeaderConsumers(m, events)
  \/ \E m \in AvailableMicroservices : RunCreateConsumers(m)
  \/ RunCreateAuditLoggingResources

SpecTopo == InitTopo /\ [][NextTopo]_vars

(***************************************************************************)
(* Event flow: publish_event, the broker, the event dispatcher and the     *)
(* EventHandler surface.                                                   *)
(***************************************************************************)
\* connect_to_events of every service, run in turn on an empty broker
RECURSIVE ConnectAll(_, _, _)
ConnectAll(t, services, events) ==
  IF services = {} THEN t
  ELSE LET m == CHOOSE x \in services : TRUE
       IN  ConnectAll(
             CreateAuditLoggingResources(
               CreateHeaderConsumers(t, EventsQueueName(m), events[m])),
             services \ {m}, events)

Enqueue(qs, targets, msg) ==
  [q \in DOMAIN qs |-> IF q \in targets THEN Append(qs[q], msg) ELSE qs[q]]

Message(exchange, routing_key, data, headers, app_id, message_id, expiration, content_type, chain) ==
  [exchange |-> exchange, routing_key |-> routing_key, data |-> data,
   headers |-> headers, app_id |-> app_id, message_id |-> message_id,
   expiration |-> expiration, content_type |-> content_type,
   delivery_mode |-> 2, chain |-> chain]

AuditPayloadMutant(kind, event_id, microservice, queue_name, event, retry_count, corr) ==
  [kind |-> kind, event_id |-> event_id, microservice |-> microservice,
   queue_name |-> queue_name, event |-> event, retry_count |-> 0, corr |-> corr]

\* the audit payloads: kind is the event type, used as routing key
\* (corr is not on the wire: the correlation id of the chain the record is about)
AuditPayload(kind, event_id, microservice, queue_name, event, retry_count, corr) ==
  [kind |-> kind, event_id |-> event_id, microservice |-> microservice,
   queue_name |-> queue_name, event |-> event, retry_count |-> retry_count,
   corr |-> corr]

InitFlow(subscriptions, retries, occurrences) ==
  /\ declared \in subscriptions
  /\ topology = ConnectAll(NoTopology, AvailableMicroservices, declared)
  /\ queues = [q \in QueueNames(topology) |-> <<>>]
  /\ channel = [m \in AvailableMicroservices |-> NewChannel]
  /\ handler = [m \in AvailableMicroservices |-> NoHandler]
  /\ uuid = 1
  /\ published = 0
  /\ policy \in [max_retries : retries, max_occurrence : occurrences]
  /\ auditTasks = {}
  /\ auditLog = {}
  /\ routed = {}
  /\ observed = [m \in AvailableMicroservices |-> <<>>]
  /\ ended = {}
  /\ InitSagaIdle

publish_event_headersMutant(event) == HeaderEvent(event)

\* publish_event: the headers of the event
publish_event_headers(event) ==
  Insert(HeaderEvent(event), "all-micro", LongString("yes"))

\* publish_event, called in service m with a payload of event type `event`
PublishEvent(m, event) ==
  /\ published < MaxPublish
  /\ Cardinality(auditTasks) < MaxPendingAudit
  /\ LET event_id == uuid
         header_event == publish_event_headers(event)
         msg == Message(MATCHING, "", "json-object", header_event, Some(m),
                        Some(event_id), NoneStr, "application/json",
                        [NoChain EXCEPT !.corr = event_id])
         targets == Route(topology, MATCHING, "", header_event)
     IN  /\ queues' = Enqueue(queues, targets, msg)
         /\ routed' = routed \cup {[id |-> event_id, event |-> event, queues |-> targets]}
         /\ auditTasks' = auditTasks \cup
              {AuditPayload("audit.published", event_id, m, "", event, 0, event_id)}
  /\ uuid' = uuid + 1
  /\ published' = published + 1
  /\ UNCHANGED <<clientVars, sagaVars, topology, declared, channel, handler, policy, auditLog, observed, ended>>

\* another publisher's message on matching_exchange: no message-id, no app-id
ForeignPublish(event, data) ==
  /\ published < MaxPublish
  /\ LET header_event == Insert(HeaderEvent(event), "all-micro", LongString("yes"))
         msg == Message(MATCHING, "", data, header_event, NoneStr, None, NoneStr,
                        "", NoChain)
     IN  queues' = Enqueue(queues, Route(topology, MATCHING, "", header_event), msg)
  /\ published' = published + 1
  /\ UNCHANGED <<clientVars, sagaVars, topology, declared, channel, handler, uuid, policy, auditTasks,
                 auditLog, routed, observed, ended>>

\* the spawned publish_audit_event task: the payload goes out on audit_exchange
\* with its event type as routing key; auditLog keeps what was published (the
\* audit queues, which no action here consumes, are not filled)
PublishAuditEvent(payload) ==
  /\ payload \in auditTasks
  /\ auditTasks' = auditTasks \ {payload}
  /\ auditLog' = auditLog \cup {payload}
  /\ UNCHANGED <<clientVars, sagaVars, topology, declared, queues, channel, handler, uuid, published, policy,
                 routed, observed, ended>>

\* find_event_values: the header values that are long strings naming an event
find_event_values(headers) ==
  {headers[k].s : k \in {x \in DOMAIN headers :
                           headers[x].t = "LongString" /\ headers[x].s \in MicroserviceEvent}}

MyDelivery(tag, msg) ==
  [delivery_tag |-> tag, exchange |-> msg.exchange, headers |-> msg.headers,
   data |-> msg.data, app_id |-> msg.app_id, message_id |-> msg.message_id]

handle_event_idMutant(message_id, fresh) == fresh

\* handle_event: the event_id is the message-id, or a new Uuid when it is missing
handle_event_id(message_id, fresh) ==
  IF message_id.some THEN message_id.v ELSE fresh

\* what the last call on a handler returned (not a field of the handler)
NoReturn == [call |-> "", ok |-> FALSE, count |-> 0]

Returned(call, ok, count) == [call |-> call, ok |-> ok, count |-> IF ok THEN count ELSE 0]

delivery_nackMutant(ch, tag) == [ch EXCEPT !.next_tag = @ + 1, !.unacked = @ \cup {tag}]

\* the consume loop after handle_event / handle_saga_step returned Err:
\* delivery.nack(BasicNackOptions::default()), requeue is false, the broker
\* drops the message
delivery_nack(ch, tag) == [ch EXCEPT !.next_tag = @ + 1]

\* consume_events: the next delivery of the intake queue, through handle_event
Deliver(m) ==
  LET q == EventsQueueName(m) IN
  /\ channel[m].open
  /\ channel[m].unacked = {}          \* basic_qos(1)
  /\ q \in DOMAIN queues
  /\ queues[q] # <<>>
  /\ LET msg == Head(queues[q])
         tag == channel[m].next_tag
         event_key == find_event_values(msg.headers)
         failed == msg.data # "json-object" \/ event_key = {}
         \* one tag header on every message of the model: event_key[0] is that one
         event == CHOOSE e \in event_key : TRUE
         publisher_microservice == IF msg.app_id.some THEN msg.app_id.v ELSE "unknown"
         event_id == handle_event_id(msg.message_id, uuid)
         delivery == [MyDelivery(tag, msg) EXCEPT
                        !.app_id = Some(publisher_microservice),
                        !.message_id = Some(event_id)]
     IN  /\ queues' = [queues EXCEPT ![q] = Tail(@)]
         /\ IF failed
            THEN \* handle_event returned Err: delivery.nack, the message is dropped
                 /\ channel' = [channel EXCEPT ![m] = delivery_nack(@, tag)]
                 /\ UNCHANGED <<handler, uuid, auditTasks, observed>>
            ELSE /\ Cardinality(auditTasks) < MaxPendingAudit
                 /\ channel' = [channel EXCEPT ![m].next_tag = @ + 1,
                                               ![m].unacked = {tag}]
                 /\ uuid' = IF msg.message_id.some THEN uuid ELSE uuid + 1
                 /\ auditTasks' = auditTasks \cup
                      {AuditPayload("audit.received", event_id, m, q, event, tag,
                                    IF msg.chain.corr = 0 THEN event_id
                                    ELSE msg.chain.corr)}
                 /\ handler' = [handler EXCEPT ![m] =
                      [held |-> TRUE, delivery |-> delivery, queue_name |-> q,
                       microservice |-> m, processed_event |-> event,
                       publisher_microservice |-> publisher_microservice,
                       event_id |-> event_id, calls |-> 0, terminal |-> 0,
                       returned |-> NoReturn,
                       chain |-> [msg.chain EXCEPT
                                    !.corr = IF @ = 0 THEN event_id ELSE @]]]
                 /\ observed' = [observed EXCEPT ![m] =
                      Append(@, [id |-> event_id,
                                 count |-> HeaderInt(msg.headers, "x-retry-count")])]
  /\ UNCHANGED <<clientVars, sagaVars, topology, declared, published, policy, auditLog, routed, ended>>

\* basic_ack / basic_nack on the handler's channel for its delivery tag: the
\* broker settles an outstanding tag and closes the channel on an unknown one
Settle(ch, tag) ==
  IF tag \in ch.unacked
  THEN [ch EXCEPT !.unacked = @ \ {tag}]
  ELSE [ch EXCEPT !.open = FALSE, !.unacked = {}]

\* EventHandler::ack
HandlerAck(m) ==
  /\ handler[m].held
  /\ handler[m].calls < MaxCalls
  /\ IF ~channel[m].open
     THEN \* basic_ack fails: Err, nothing sent
          /\ handler' = [handler EXCEPT ![m].calls = @ + 1,
                                        ![m].returned = Returned("ack", FALSE, 0)]
          /\ UNCHANGED <<channel, auditTasks>>
     ELSE /\ Cardinality(auditTasks) < MaxPendingAudit
          /\ channel' = [channel EXCEPT ![m] = Settle(@, handler[m].delivery.delivery_tag)]
          /\ handler' = [handler EXCEPT ![m].calls = @ + 1, ![m].terminal = @ + 1,
                                        ![m].returned = Returned("ack", TRUE, 0)]
          /\ auditTasks' = auditTasks \cup
               {AuditPayload("audit.processed", handler[m].event_id, m,
                             handler[m].queue_name, handler[m].processed_event,
                             handler[m].delivery.delivery_tag, handler[m].chain.corr)}
  /\ UNCHANGED <<clientVars, sagaVars, topology, declared, queues, uuid, published, policy, auditLog,
                 routed, observed, ended>>

\* the chain record a requeued message carries: who nacked it, what count the
\* nacked delivery showed, how many nacks (and Fibonacci nacks) came before
NextChain(h, fibo) ==
  [n |-> h.chain.n + 1,
   seen |-> IF "x-retry-count" \in DOMAIN h.delivery.headers
            THEN h.delivery.headers["x-retry-count"].n ELSE 0,
   fib |-> IF fibo /\ h.chain.fib = h.chain.n THEN h.chain.fib + 1 ELSE h.chain.fib,
   owner |-> h.queue_name,
   corr |-> h.chain.corr]

\* EventHandler::nack_with_delay / nack_with_fibonacci_strategy: `r` is the
\* result of Nack::with_delay / with_fibonacci_strategy, `sent` whether the
\* call returns Ok when the publish goes out on a channel the broker is closing
HandlerNack(m, r, fibo, reason, sent) ==
  /\ handler[m].held
  /\ handler[m].calls < MaxCalls
  /\ IF ~channel[m].open
     THEN \* basic_nack fails: Err, nothing sent
          /\ handler' = [handler EXCEPT ![m].calls = @ + 1,
                                        ![m].returned = Returned(reason, FALSE, 0)]
          /\ UNCHANGED <<channel, queues, auditTasks, ended>>
     ELSE LET h == handler[m]
              live == h.delivery.delivery_tag \in channel[m].unacked
              ok == live \/ ~r.requeue.publish \/ sent
              msg == Message(r.requeue.exchange, r.requeue.routing_key, r.requeue.data,
                             r.requeue.headers, r.requeue.app_id, r.requeue.message_id,
                             r.requeue.expiration, r.requeue.content_type,
                             NextChain(h, fibo))
          IN  /\ Cardinality(auditTasks) < MaxPendingAudit
              /\ channel' = [channel EXCEPT ![m] = Settle(@, handler[m].delivery.delivery_tag)]
              /\ handler' = [handler EXCEPT ![m].calls = @ + 1, ![m].terminal = @ + 1,
                                            ![m].returned = Returned(reason, ok, r.count)]
              /\ queues' = IF live /\ r.requeue.publish
                           THEN Enqueue(queues,
                                        Route(topology, r.requeue.exchange,
                                              r.requeue.routing_key, r.requeue.headers),
                                        msg)
                           ELSE queues
              /\ ended' = IF live /\ ~r.requeue.publish
                          THEN ended \cup {[microservice |-> m, event_id |-> h.event_id,
                                            republished |-> h.chain.n, count |-> r.count,
                                            occurrence |-> r.occurrence, delay |-> r.delay,
                                            fib |-> NextChain(h, fibo).fib, ok |-> ok,
                                            max_retries |-> policy.max_retries]}
                          ELSE ended
              /\ auditTasks' = IF ok
                               THEN auditTasks \cup
                                      {AuditPayload("audit.dead_letter", h.event_id, m,
                                                    h.queue_name, h.processed_event, r.count,
                                                    h.chain.corr)}
                               ELSE auditTasks
  /\ UNCHANGED <<clientVars, sagaVars, topology, declared, uuid, published, policy, auditLog, routed, observed>>

HandlerNackWithDelay(m, delay, sent) ==
  /\ handler[m].held
  /\ HandlerNack(m, with_delay(handler[m].delivery, handler[m].queue_name, delay,
                               policy.max_retries),
                 FALSE, "delay", sent)

HandlerNackWithFibonacciStrategy(m, sent) ==
  /\ handler[m].held
  /\ HandlerNack(m, with_fibonacci_strategy(handler[m].delivery, handler[m].queue_name,
                                            policy.max_occurrence, policy.max_retries),
                 TRUE, "fibonacci_strategy", sent)

\* the per-message TTL of the head of a requeue queue runs out: the broker
\* dead-letters it to the queue's x-dead-letter-exchange
Expire(q) ==
  /\ q \in DOMAIN queues
  /\ queues[q] # <<>>
  /\ Head(queues[q]).expiration.some
  /\ \E d \in topology.queues :
       /\ d.name = q
       /\ "x-dead-letter-exchange" \in DOMAIN d.args
       /\ LET dlx == d.args["x-dead-letter-exchange"].s
              old == Head(queues[q])
              headers == Insert(Insert(old.headers, "x-first-death-queue", LongString(q)),
                                "x-first-death-reason", LongString("expired"))
              msg == [old EXCEPT !.exchange = dlx, !.headers = headers,
                                 !.expiration = NoneStr]
          IN  queues' = Enqueue([queues EXCEPT ![q] = Tail(@)],
                                Route(topology, dlx, old.routing_key, headers), msg)
  /\ UNCHANGED <<clientVars, sagaVars, topology, declared, channel, handler, uuid, published, policy,
                 auditTasks, auditLog, routed, observed, ended>>

Delays == {100}

Next ==
  \/ \E m \in AvailableMicroservices, event \in MicroserviceEvent : PublishEvent(m, event)
  \/ \E event \in MicroserviceEvent, data \in {"json-object", "not-json"} :
       ForeignPublish(event, data)
  \/ \E payload \in auditTasks : PublishAuditEvent(payload)
  \/ \E m \in AvailableMicroservices : Deliver(m)
  \/ \E m \in AvailableMicroservices : HandlerAck(m)
  \/ \E m \in AvailableMicroservices, delay \in Delays, sent \in BOOLEAN :
       HandlerNackWithDelay(m, delay, sent)
  \/ \E m \in AvailableMicroservices, sent \in BOOLEAN :
       HandlerNackWithFibonacciStrategy(m, sent)
  \/ \E q \in DOMAIN queues : Expire(q)

Init == InitFlow([AvailableMicroservices -> SUBSET MicroserviceEvent], 0..FlowRetries, {2})

Spec == Init /\ [][Next]_vars

(***************************************************************************)
(* Retry engine: one subscriber, every retry policy up to the bounds.      *)
(***************************************************************************)
RetrySubscriptions ==
  {[m \in AvailableMicroservices |-> IF m = "auth" THEN MicroserviceEvent ELSE {}]}

InitRetry == InitFlow(RetrySubscriptions, 0..MaxRetries, 1..MaxOccurrence)

SpecRetry == InitRetry /\ [][Next]_vars

(***************************************************************************)
(* Saga steps: the orchestrator's step on commands_exchange, the saga      *)
(* dispatcher and the CommandHandler surface.  A JSON value is a record    *)
(* with its kind and, for an object, its map from keys to values.          *)
(***************************************************************************)
EmptyMap == [k \in {} |-> ""]

Object(map) == [kind |-> "Object", map |-> map]

NonObjects == {[kind |-> "Null", map |-> EmptyMap],
               [kind |-> "Array", map |-> EmptyMap]}

\* the keys of the payloads: two metadata keys, one business key
PayloadKeys == {"__", "__sagaCtx", "tokenId"}

\* the payloads the orchestrator sends
PreviousPayloads ==
  {[key \in keys |-> "abc"] :
     keys \in {{}, {"__sagaCtx", "tokenId"}, {"__", "__sagaCtx"}}}

\* the values a handler passes to ack
NextPayloads ==
  {Object([key \in keys |-> "xyz"]) : keys \in {{}, {"tokenId"}, {"__sagaCtx", "tokenId"}}}
    \cup NonObjects

\* StepCommand (one of the variants)
StepCommand == {"create_image"}

\* str::starts_with
StartsWith(key, prefix) ==
  Len(key) >= Len(prefix) /\ SubSeq(key, 1, Len(prefix)) = prefix

SagaStep(microservice, command, status, saga_id, payload, previous_payload) ==
  [microservice |-> microservice, command |-> command, status |-> status,
   saga_id |-> saga_id, payload |-> payload, previous_payload |-> previous_payload,
   is_current_step |-> TRUE]

MicroserviceConsumeChannel_ackMutant(step, payload_for_next_step) ==
  LET metadata == {key \in DOMAIN step.previous_payload :
                     Len(key) > 2 /\ StartsWith(key, "__")}
      map == payload_for_next_step.map
  IN  [ok |-> TRUE,
       step |-> [step EXCEPT !.status = "success",
                             !.payload = [key \in metadata \cup DOMAIN map |->
                                            IF key \in DOMAIN map THEN map[key]
                                            ELSE step.previous_payload[key]]]]

\* MicroserviceConsumeChannel::ack up to the match: the envelope to send, or
\* Err(InvalidPayload)
MicroserviceConsumeChannel_ack(step, payload_for_next_step) ==
  LET metadata == {key \in DOMAIN step.previous_payload :
                     Len(key) > 2 /\ StartsWith(key, "__")}
      map == payload_for_next_step.map
  IN  IF payload_for_next_step.kind = "Object"
      THEN [ok |-> TRUE,
            step |-> [step EXCEPT !.status = "success",
                                  !.payload = [key \in metadata \cup DOMAIN map |->
                                                 IF key \in DOMAIN map THEN map[key]
                                                 ELSE step.previous_payload[key]]]]
      ELSE [ok |-> FALSE, step |-> step]

\* connect_to_saga_commands of every service, and the orchestrator's reply queue
RECURSIVE ConnectAllSaga(_, _)
ConnectAllSaga(t, services) ==
  IF services = {} THEN t
  ELSE LET m == CHOOSE x \in services : TRUE
       IN  ConnectAllSaga(CreateConsumer(t, SagaQueueName(m), COMMANDS), services \ {m})

InitSaga ==
  /\ declared = [m \in AvailableMicroservices |-> Undeclared]
  /\ topology = QueueDeclare(ConnectAllSaga(NoTopology, AvailableMicroservices),
                             REPLY_TO_SAGA, FieldTableDefault)
  /\ queues = [q \in QueueNames(topology) |-> <<>>]
  /\ channel = [m \in AvailableMicroservices |-> NewChannel]
  /\ handler = [m \in AvailableMicroservices |-> NoHandler]
  /\ uuid = 1
  /\ published = 0
  /\ policy \in [max_retries : {0, 1}, max_occurrence : {2}]
  /\ auditTasks = {}
  /\ auditLog = {}
  /\ routed = {}
  /\ observed = [m \in AvailableMicroservices |-> <<>>]
  /\ ended = {}
  /\ InitSagaIdle

eventVars == <<channel, handler, uuid, published, policy, auditTasks, auditLog,
               routed, observed, ended>>

\* the orchestrator sends a step to service m; a body whose command is not a
\* StepCommand does not deserialize
OrchestratorSend(m, command, previous_payload) ==
  /\ steps < MaxSteps
  /\ LET routing_key == SagaQueueName(m) \o "_routing_key"
         step == SagaStep(m, command, "pending", steps + 1, EmptyMap, previous_payload)
         msg == Message(COMMANDS, routing_key, step, FieldTableDefault, NoneStr, NoneStr,
                        NoneStr, "application/json", NoChain)
     IN  queues' = Enqueue(queues, Route(topology, COMMANDS, routing_key, FieldTableDefault),
                           msg)
  /\ steps' = steps + 1
  /\ UNCHANGED <<clientVars, topology, declared, eventVars, saga_channel, command_handler>>

\* (calls, terminal, arg and last are not in the program: the number of calls
\* made on the handler, the basic_ack / basic_nack they issued, the kind of the
\* value of the last call and what it returned)
\* consume_saga_steps: the next delivery of the saga queue, through handle_saga_step
DeliverSaga(m) ==
  LET q == SagaQueueName(m) IN
  /\ saga_channel[m].open
  /\ saga_channel[m].unacked = {}     \* basic_qos(1)
  /\ queues[q] # <<>>
  /\ LET msg == Head(queues[q])
         tag == saga_channel[m].next_tag
         current_step == msg.data
     IN  /\ queues' = [queues EXCEPT ![q] = Tail(@)]
         /\ IF current_step.command \notin StepCommand
            THEN \* serde_json::from_slice fails: delivery.nack, the message is dropped
                 /\ saga_channel' = [saga_channel EXCEPT ![m] = delivery_nack(@, tag)]
                 /\ UNCHANGED command_handler
            ELSE /\ saga_channel' = [saga_channel EXCEPT ![m].next_tag = @ + 1,
                                                         ![m].unacked = {tag}]
                 /\ command_handler' = [command_handler EXCEPT ![m] =
                      [held |-> TRUE, delivery |-> MyDelivery(tag, msg), queue_name |-> q,
                       step |-> current_step, payload |-> current_step.previous_payload,
                       saga_id |-> current_step.saga_id, calls |-> 0, terminal |-> 0,
                       chain |-> msg.chain, arg |-> "none", last |-> "none"]]
  /\ UNCHANGED <<clientVars, topology, declared, eventVars, steps>>

\* CommandHandler::ack
send_then_ackMutant(sent, ch, tag) == Settle(ch, tag)

\* MicroserviceConsumeChannel::ack after the match: RabbitMQClient::send(..)
\* .await? and then basic_ack; an Err of send returns before the basic_ack
send_then_ack(sent, ch, tag) == IF sent THEN Settle(ch, tag) ELSE ch

\* CommandHandler::ack; `sent` is whether RabbitMQClient::send returns Ok
CommandAck(m, payload_for_next_step, sent) ==
  /\ command_handler[m].held
  /\ command_handler[m].calls < MaxCalls
  /\ LET h == command_handler[m]
         r == MicroserviceConsumeChannel_ack(h.step, payload_for_next_step)
         msg == Message("", REPLY_TO_SAGA, r.step, FieldTableDefault, NoneStr, NoneStr,
                        NoneStr, "application/json", NoChain)
         arg == payload_for_next_step.kind
     IN  IF ~r.ok
         THEN /\ command_handler' = [command_handler EXCEPT
                   ![m].calls = @ + 1, ![m].arg = arg, ![m].last = "InvalidPayload"]
              /\ UNCHANGED <<queues, saga_channel>>
         ELSE IF ~sent
         THEN \* RabbitMQClient::send returned Err: ack returns it
              /\ command_handler' = [command_handler EXCEPT
                   ![m].calls = @ + 1, ![m].arg = arg, ![m].last = "Err"]
              /\ saga_channel' = [saga_channel EXCEPT ![m] =
                                    send_then_ack(sent, @, h.delivery.delivery_tag)]
              /\ UNCHANGED queues
         ELSE \* RabbitMQClient::send on the publish channel, then basic_ack
              /\ queues' = Enqueue(queues, Route(topology, "", REPLY_TO_SAGA,
                                                 FieldTableDefault), msg)
              /\ IF saga_channel[m].open
                 THEN /\ saga_channel' = [saga_channel EXCEPT ![m] =
                                            send_then_ack(sent, @, h.delivery.delivery_tag)]
                      /\ command_handler' = [command_handler EXCEPT
                           ![m].calls = @ + 1, ![m].terminal = @ + 1, ![m].arg = arg,
                           ![m].last = "Ok"]
                 ELSE /\ command_handler' = [command_handler EXCEPT
                           ![m].calls = @ + 1, ![m].arg = arg, ![m].last = "Err"]
                      /\ UNCHANGED saga_channel
  /\ UNCHANGED <<clientVars, topology, declared, eventVars, steps>>

\* CommandHandler::nack_with_delay / nack_with_fibonacci_strategy
CommandNack(m, r, fibo, sent) ==
  /\ command_handler[m].held
  /\ command_handler[m].calls < MaxCalls
  /\ IF ~saga_channel[m].open
     THEN /\ command_handler' = [command_handler EXCEPT
               ![m].calls = @ + 1, ![m].arg = "nack", ![m].last = "Err"]
          /\ UNCHANGED <<saga_channel, queues>>
     ELSE LET h == command_handler[m]
              live == h.delivery.delivery_tag \in saga_channel[m].unacked
              ok == live \/ ~r.requeue.publish \/ sent
              msg == Message(r.requeue.exchange, r.requeue.routing_key, r.requeue.data,
                             r.requeue.headers, r.requeue.app_id, r.requeue.message_id,
                             r.requeue.expiration, r.requeue.content_type,
                             NextChain(h, fibo))
          IN  /\ saga_channel' = [saga_channel EXCEPT ![m] =
                                    Settle(@, h.delivery.delivery_tag)]
              /\ command_handler' = [command_handler EXCEPT
                   ![m].calls = @ + 1, ![m].terminal = @ + 1, ![m].arg = "nack",
                   ![m].last = IF ok THEN "Ok" ELSE "Err"]
              /\ queues' = IF live /\ r.requeue.publish
                           THEN Enqueue(queues,
                                        Route(topology, r.requeue.exchange,
                                              r.requeue.routing_key, r.requeue.headers),
                                        msg)
                           ELSE queues
  /\ UNCHANGED <<clientVars, topology, declared, eventVars, steps>>

CommandNackWithDelay(m, delay, sent) ==
  /\ command_handler[m].held
  /\ CommandNack(m, with_delay(command_handler[m].delivery, command_handler[m].queue_name,
                               delay, policy.max_retries),
                 FALSE, sent)

CommandNackWithFibonacciStrategy(m, sent) ==
  /\ command_handler[m].held
  /\ CommandNack(m, with_fibonacci_strategy(command_handler[m].delivery,
                                            command_handler[m].queue_name,
                                            policy.max_occurrence, policy.max_retries),
                 TRUE, sent)

\* the services the orchestrator sends steps to
SagaMicroservices == {"auth"}

NextSaga ==
  \/ \E m \in SagaMicroservices, command \in StepCommand \cup {"no_such_command"},
        previous_payload \in PreviousPayloads :
       OrchestratorSend(m, command, previous_payload)
  \/ \E m \in SagaMicroservices : DeliverSaga(m)
  \/ \E m \in SagaMicroservices, payload_for_next_step \in NextPayloads, sent \in BOOLEAN :
       CommandAck(m, payload_for_next_step, sent)
  \/ \E m \in SagaMicroservices, delay \in Delays, sent \in BOOLEAN :
       CommandNackWithDelay(m, delay, sent)
  \/ \E m \in SagaMicroservices, sent \in BOOLEAN :
       CommandNackWithFibonacciStrategy(m, sent)
  \/ \E q \in DOMAIN queues : Expire(q)

SpecSaga == InitSaga /\ [][NextSaga]_vars

(***************************************************************************)
(* Emitter: the map from event tag to the Sender of the first registration,*)
(* the bounded mpsc buffer behind it and the task that runs the handler.   *)
(* A registration is known by its position in the order of the             *)
(* on_with_async_handler calls; a context carries its tag and the position *)
(* of its emit among the emits of that tag.                                *)
(***************************************************************************)
MaxRegistrations == 3

MaxEmits == 3

\* mpsc::channel(100), scaled down
MpscBuffer == 2

Registrations == 1..MaxRegistrations

NoData == [event |-> "", n |-> 0]

\* Emitter::new
NewEmitter ==
  [events |-> [e \in {} |-> 0], registered |-> <<>>,
   rx |-> [r \in Registrations |-> <<>>], running |-> [r \in Registrations |-> NoData],
   pending |-> NoData, emitted |-> [e \in MicroserviceEvent |-> 0],
   started |-> [r \in Registrations |-> <<>>]]

\* Option::get_or_insert_with(Emitter::new) on the emitter slot of the client
get_or_insert_with(present, em) == IF present THEN em ELSE NewEmitter

onMutant(events, event, tx) ==
  [e \in DOMAIN events \cup {event} |-> IF e = event THEN tx ELSE events[e]]

\* Emitter::on: events.entry(event).or_insert(tx)
on(events, event, tx) ==
  IF event \in DOMAIN events THEN events
  ELSE [e \in DOMAIN events \cup {event} |-> IF e = event THEN tx ELSE events[e]]

\* on_with_async_handler: on(), then the task that loops on rx.recv() is
\* spawned; it takes the events lock, which a pending emit holds
OnWithAsyncHandler(event) ==
  /\ Len(emitter.registered) < MaxRegistrations
  /\ emitter.pending = NoData
  /\ emitter' = [emitter EXCEPT
       !.registered = Append(@, event),
       !.events = on(@, event, Len(emitter.registered) + 1)]
  /\ UNCHANGED <<PUBLISH_CHANNEL, brokerVars, CONNECTION, rwlock, client, mutex, tasks, consumers>>

\* sender.send(data): the context enters the buffer of the registration the
\* map holds for its tag
Send(em, data) ==
  [em EXCEPT !.rx[em.events[data.event]] = Append(@, data), !.pending = NoData]

\* Emitter::emit: nothing when the tag has no sender; the send waits, with the
\* events lock held, while the buffer is full
Emit(em, data) ==
  IF data.event \notin DOMAIN em.events THEN em
  ELSE IF Len(em.rx[em.events[data.event]]) < MpscBuffer THEN Send(em, data)
       ELSE [em EXCEPT !.pending = data]

\* emit(event, data) on a clone of the emitter
EmitEvent(event) ==
  /\ emitter.emitted[event] < MaxEmits
  /\ emitter.pending = NoData
  /\ emitter' = [Emit(emitter, [event |-> event, n |-> emitter.emitted[event] + 1])
                   EXCEPT !.emitted[event] = @ + 1]
  /\ UNCHANGED <<PUBLISH_CHANNEL, brokerVars, CONNECTION, rwlock, client, mutex, tasks, consumers>>

\* a pending send completes once the buffer has room
EmitSend ==
  /\ emitter.pending # NoData
  /\ Len(emitter.rx[emitter.events[emitter.pending.event]]) < MpscBuffer
  /\ emitter' = Send(emitter, emitter.pending)
  /\ UNCHANGED <<PUBLISH_CHANNEL, brokerVars, CONNECTION, rwlock, client, mutex, tasks, consumers>>

recvMutant(buffer) == buffer[Len(buffer)]

\* rx.recv(): the oldest context in the buffer
recv(buffer) == Head(buffer)

\* the task of a registration: rx.recv().await returned, handler(data) starts
HandlerStarts(r) ==
  /\ r <= Len(emitter.registered)
  /\ emitter.running[r] = NoData
  /\ emitter.rx[r] # <<>>
  /\ LET data == recv(emitter.rx[r])
     IN  emitter' = [emitter EXCEPT
           !.running[r] = data,
           !.rx[r] = SelectSeq(@, LAMBDA d : d # data),
           !.started[r] = Append(@, data)]
  /\ UNCHANGED <<PUBLISH_CHANNEL, brokerVars, CONNECTION, rwlock, client, mutex, tasks, consumers>>

\* handler(data).await returns, the task loops
HandlerReturns(r) ==
  /\ emitter.running[r] # NoData
  /\ emitter' = [emitter EXCEPT !.running[r] = NoData]
  /\ UNCHANGED <<PUBLISH_CHANNEL, brokerVars, CONNECTION, rwlock, client, mutex, tasks, consumers>>

EmitterNext ==
  \/ \E event \in MicroserviceEvent : OnWithAsyncHandler(event)
  \/ \E event \in MicroserviceEvent : EmitEvent(event)
  \/ EmitSend
  \/ \E r \in Registrations : HandlerStarts(r)
  \/ \E r \in Registrations : HandlerReturns(r)

(***************************************************************************)
(* Broker session: the process-wide connection behind its RwLock, the two  *)
(* role channels behind their Mutexes, health_check,                       *)
(* health_check_with_reconnection and reconnect, called on clones of one   *)
(* client.  A step is what a task does between two await points.           *)
(***************************************************************************)
MaxCallers == 2

MaxCloses == 1

MaxConnections == 3

\* callers are tasks 1..MaxCallers; the task a caller's
\* health_check_with_reconnection spawns is task MaxCallers + caller
Callers == 1..MaxCallers

Spawned(t) == MaxCallers + t

Tasks == 1..(2 * MaxCallers)

\* callers are numbered in the order of their calls
NextCaller(t) == \A u \in Callers : u < t => tasks[u].pc # "idle"

\* holders of a channel Mutex that are not tasks of the model: the dispatcher
\* inside handle_event / handle_saga_step, which keeps the guard across emit
EventDispatcher == 0 - 1

SagaDispatcher == 0 - 2

\* connection.create_channel(); qos is the prefetch count basic_qos has set
\* on the channel (0: none)
Channel(id, conn) == [id |-> id, conn |-> conn, closed |-> FALSE, qos |-> 0]

\* basic_qos(prefetch_count) on a channel
BasicQos(chan, prefetch_count) == [chan EXCEPT !.qos = prefetch_count]

\* connection.status().connected()
ConnectionConnected == CONNECTION.id \notin CONNECTION.closed

\* channel.status().connected(): a channel dies with its connection
Connected(chan) == ~chan.closed /\ chan.conn \notin CONNECTION.closed

AllConnected ==
  ConnectionConnected /\ Connected(client.events_channel) /\ Connected(client.saga_channel)

IdleTask ==
  [call |-> "", pc |-> "idle", conn |-> "", events |-> "", saga |-> "", result |-> "",
   replaced |-> FALSE, disturbed |-> FALSE, healthy |-> FALSE, created |-> <<>>]

NoDelivery == [delivery_tag |-> 0, n |-> 0]

\* a consume loop and its basic_consume registration: the prefetch count of
\* its channel, the next delivery tag of the channel and the deliveries the
\* broker holds unacked on it, oldest first, the delivery consumer.next()
\* returned last and handle_event has not dispatched yet; a cancelled loop
\* has lost its channel and ends after the delivery it holds
Consumer(consumer_tag, queue, chan) ==
  [consumer_tag |-> consumer_tag, queue |-> queue, channel |-> chan.id,
   prefetch_count |-> chan.qos, next_tag |-> 1, unacked |-> <<>>,
   delivery |-> NoDelivery, cancelled |-> FALSE]

\* the consumers of a channel or connection that goes down: the loops that
\* hold a delivery stay until they have dispatched it
Cancel(dead) ==
  {[c EXCEPT !.cancelled = TRUE, !.unacked = <<>>] : c \in {d \in dead : d.delivery # NoDelivery}}

\* the messages unacked at the consumers `cs` of queue q, oldest first
RECURSIVE Unacked(_, _)
Unacked(q, cs) ==
  IF cs = {} THEN <<>>
  ELSE LET c == CHOOSE x \in cs : \A y \in cs : x.channel <= y.channel
       IN  (IF c.queue = q THEN [i \in 1..Len(c.unacked) |-> c.unacked[i].n] ELSE <<>>)
             \o Unacked(q, cs \ {c})

\* the broker requeues what was unacked on a channel that went down, ahead of
\* the messages that wait in the queue
Requeue(qs, dead) == [q \in DOMAIN qs |-> Unacked(q, dead) \o qs[q]]

\* RabbitMQClient::new, then connect_to_events / connect_to_saga_commands for
\* the emitters the service uses
InitSession(emitters) ==
  /\ CONNECTION = [id |-> 1, closed |-> {}, channels |-> 2, closes |-> 0]
  /\ rwlock = [readers |-> {}, writer |-> 0]
  /\ \E e \in emitters :
       /\ client = [events_channel |-> BasicQos(Channel(1, 1), 1),
                    saga_channel |-> BasicQos(Channel(2, 1), 1),
                    event_emitter |-> e.event_emitter, saga_emitter |-> e.saga_emitter,
                    reconnecting |-> FALSE, starting |-> [events |-> 0, saga |-> 0]]
       /\ consumers =
            (IF e.event_emitter
             THEN {Consumer("event_consumer", EventsQueueName("auth"),
                            BasicQos(Channel(1, 1), 1))}
             ELSE {})
            \cup (IF e.saga_emitter
                  THEN {Consumer("saga_consumer", SagaQueueName("auth"),
                                 BasicQos(Channel(2, 1), 1))}
                  ELSE {})
  /\ mutex = [events_channel |-> 0, saga_channel |-> 0]
  /\ tasks = [t \in Tasks |-> IdleTask]
  /\ PUBLISH_CHANNEL = NoPublishChannel

\* dropping a future: the guards it holds are released
Release(lock, t) ==
  [readers |-> lock.readers \ {t}, writer |-> IF lock.writer = t THEN 0 ELSE lock.writer]

\* the await points of get_connection a task is not waiting at
GetConnectionReady(t) ==
  \/ tasks[t].conn = "read" /\ rwlock.writer = 0
  \/ tasks[t].conn = "write" /\ rwlock.writer = 0 /\ rwlock.readers = {}
  \/ tasks[t].conn = "got" /\ rwlock.writer = 0

CheckEventsReady(t) == tasks[t].events = "lock" /\ mutex.events_channel = 0

CheckSagaReady(t) == tasks[t].saga = "lock" /\ mutex.saga_channel = 0

\* health_check returns `result`; health_check_with_reconnection then spawns
\* the reconnect task when the result is an error
HealthCheckReturns(t, task, result) ==
  LET done == [task EXCEPT !.pc = "returned", !.result = result, !.healthy = FALSE,
                           !.conn = "", !.events = "", !.saga = ""]
  IN  /\ tasks' = IF task.call = "health_check_with_reconnection" /\ result # "Ok"
                  THEN [tasks EXCEPT ![t] = done,
                                     ![Spawned(t)] = [IdleTask EXCEPT
                                                        !.call = "reconnect_task",
                                                        !.pc = "set_reconnecting"]]
                  ELSE [tasks EXCEPT ![t] = done]
      /\ rwlock' = Release(rwlock, t)

\* try_zip: Ok when the three checks are Ok
HealthCheckJoin(t, task) ==
  IF task.conn = "ok" /\ task.events = "ok" /\ task.saga = "ok"
  THEN HealthCheckReturns(t, task, "Ok")
  ELSE tasks' = [tasks EXCEPT ![t] = task] /\ rwlock' = rwlock

\* health_check(timeout) / health_check_with_reconnection(timeout) is called
HealthCheck(t, with_reconnection) ==
  /\ tasks[t].pc = "idle"
  /\ NextCaller(t)
  /\ LET call == IF with_reconnection THEN "health_check_with_reconnection"
                 ELSE "health_check"
         task == [tasks[t] EXCEPT !.call = call, !.healthy = AllConnected]
     IN  IF with_reconnection /\ client.reconnecting
         THEN tasks' = [tasks EXCEPT ![t] = [task EXCEPT !.pc = "returned",
                                               !.result = "Unhealthy Reconnecting the server..."]]
         ELSE tasks' = [tasks EXCEPT ![t] = [task EXCEPT !.pc = "health_check",
                                               !.conn = "read", !.events = "lock",
                                               !.saga = "lock"]]
  /\ UNCHANGED <<PUBLISH_CHANNEL, brokerVars, emitter, CONNECTION, rwlock, client, mutex, consumers>>

\* get_connection: connection.read().await and the status it sees
GetConnectionRead(t) ==
  /\ tasks[t].pc \in {"health_check", "current_connection"}
  /\ tasks[t].conn = "read"
  /\ rwlock.writer = 0
  /\ tasks' = [tasks EXCEPT ![t].conn = IF ConnectionConnected THEN "got" ELSE "write"]
  /\ UNCHANGED <<PUBLISH_CHANNEL, brokerVars, emitter, CONNECTION, rwlock, client, mutex, consumers>>

\* get_connection: connection.write().await
GetConnectionWrite(t) ==
  /\ tasks[t].pc \in {"health_check", "current_connection"}
  /\ tasks[t].conn = "write"
  /\ rwlock.writer = 0 /\ rwlock.readers = {}
  /\ rwlock' = [rwlock EXCEPT !.writer = t]
  /\ tasks' = [tasks EXCEPT ![t].conn = "connect"]
  /\ UNCHANGED <<PUBLISH_CHANNEL, brokerVars, emitter, CONNECTION, client, mutex, consumers>>

ReconnectErrMutant(t) ==
  /\ tasks' = [tasks EXCEPT ![t] = [@ EXCEPT !.pc = "returned", !.result = "Err",
                                               !.conn = ""]]
  /\ rwlock' = Release(rwlock, t)
  /\ client' = client

\* reconnect returns Err; the spawned task then clears the flag
ReconnectErr(t) ==
  /\ tasks' = [tasks EXCEPT ![t] = [@ EXCEPT !.pc = "returned", !.result = "Err",
                                               !.conn = ""]]
  /\ rwlock' = Release(rwlock, t)
  /\ client' = IF tasks[t].call = "reconnect_task"
               THEN [client EXCEPT !.reconnecting = FALSE] ELSE client

\* get_connection: create_connection returns, with a connection or with the
\* BackoffError of a broker that stayed unreachable; in a health_check the
\* channel checks were polled before the connect could return
CreateConnection(t, reachable) ==
  /\ tasks[t].pc \in {"health_check", "current_connection"}
  /\ tasks[t].conn = "connect"
  /\ ~CheckEventsReady(t) /\ ~CheckSagaReady(t)
  /\ reachable => CONNECTION.id < MaxConnections
  /\ IF reachable
     THEN /\ CONNECTION' = [CONNECTION EXCEPT !.id = @ + 1]
          /\ tasks' = [tasks EXCEPT ![t] = [@ EXCEPT !.conn = "got", !.replaced = TRUE]]
          /\ rwlock' = Release(rwlock, t)
          /\ client' = client
     ELSE /\ CONNECTION' = CONNECTION
          /\ IF tasks[t].pc = "health_check"
             THEN /\ HealthCheckReturns(t, tasks[t], "Unhealthy BackoffError")
                  /\ client' = client
             ELSE ReconnectErr(t)
  /\ UNCHANGED <<PUBLISH_CHANNEL, brokerVars, emitter, mutex, consumers>>

\* check_connection_health, after current_connection returned
CheckConnectionHealth(t) ==
  /\ tasks[t].pc = "health_check"
  /\ tasks[t].conn = "got"
  /\ rwlock.writer = 0
  /\ IF ConnectionConnected
     THEN HealthCheckJoin(t, [tasks[t] EXCEPT !.conn = "ok"])
     ELSE HealthCheckReturns(t, tasks[t], "Unhealthy Connection")
  /\ UNCHANGED <<PUBLISH_CHANNEL, brokerVars, emitter, CONNECTION, client, mutex, consumers>>

check_events_channel_healthMutant(chan) == TRUE

\* check_events_channel_health, once it holds the guard
check_events_channel_health(chan) == Connected(chan)

\* try_zip polls the connection check before the channel checks
CheckEventsChannelHealth(t) ==
  /\ tasks[t].pc = "health_check"
  /\ ~GetConnectionReady(t)
  /\ CheckEventsReady(t)
  /\ IF check_events_channel_health(client.events_channel)
     THEN HealthCheckJoin(t, [tasks[t] EXCEPT !.events = "ok"])
     ELSE HealthCheckReturns(t, tasks[t], "Unhealthy Events Channel")
  /\ UNCHANGED <<PUBLISH_CHANNEL, brokerVars, emitter, CONNECTION, client, mutex, consumers>>

\* check_saga_channel_health, polled after the events check
CheckSagaChannelHealth(t) ==
  /\ tasks[t].pc = "health_check"
  /\ ~GetConnectionReady(t)
  /\ ~CheckEventsReady(t)
  /\ CheckSagaReady(t)
  /\ IF Connected(client.saga_channel)
     THEN HealthCheckJoin(t, [tasks[t] EXCEPT !.saga = "ok"])
     ELSE HealthCheckReturns(t, tasks[t], "Unhealthy Saga Channel")
  /\ UNCHANGED <<PUBLISH_CHANNEL, brokerVars, emitter, CONNECTION, client, mutex, consumers>>

\* tokio::time::timeout: the deadline passes while every unfinished check is
\* pending
Timeout(t) ==
  /\ tasks[t].pc = "health_check"
  /\ ~GetConnectionReady(t) /\ ~CheckEventsReady(t) /\ ~CheckSagaReady(t)
  /\ HealthCheckReturns(t, tasks[t], "Timeout")
  /\ UNCHANGED <<PUBLISH_CHANNEL, brokerVars, emitter, CONNECTION, client, mutex, consumers>>

\* the task health_check_with_reconnection spawned starts: it sets the flag
\* and calls reconnect
ReconnectTask(t) ==
  /\ tasks[t].pc = "set_reconnecting"
  /\ client' = [client EXCEPT !.reconnecting = TRUE]
  /\ tasks' = [tasks EXCEPT ![t] = [@ EXCEPT !.pc = "current_connection", !.conn = "read"]]
  /\ UNCHANGED <<PUBLISH_CHANNEL, brokerVars, emitter, CONNECTION, rwlock, mutex, consumers>>

\* reconnect() is called directly
Reconnect(t) ==
  /\ tasks[t].pc = "idle"
  /\ NextCaller(t)
  /\ tasks' = [tasks EXCEPT ![t] = [@ EXCEPT !.call = "reconnect",
                                               !.pc = "current_connection", !.conn = "read"]]
  /\ UNCHANGED <<PUBLISH_CHANNEL, brokerVars, emitter, CONNECTION, rwlock, client, mutex, consumers>>

\* reconnect: current_connection().await?.read().await, the guard is kept
ReconnectRead(t) ==
  /\ tasks[t].call \in {"reconnect", "reconnect_task"}
  /\ tasks[t].pc = "current_connection"
  /\ tasks[t].conn = "got"
  /\ rwlock.writer = 0
  /\ rwlock' = [rwlock EXCEPT !.readers = @ \cup {t}]
  /\ tasks' = [tasks EXCEPT ![t] = [@ EXCEPT !.pc = "create_channel", !.conn = ""]]
  /\ UNCHANGED <<PUBLISH_CHANNEL, brokerVars, emitter, CONNECTION, client, mutex, consumers>>

\* reconnect: the two create_channel calls on the connection it read
ReconnectCreateChannels(t) ==
  /\ tasks[t].pc = "create_channel"
  /\ IF ConnectionConnected
     THEN /\ CONNECTION' = [CONNECTION EXCEPT !.channels = @ + 2]
          /\ tasks' = [tasks EXCEPT ![t] =
               [@ EXCEPT !.pc = "lock_events_channel",
                         !.created = <<Channel(CONNECTION.channels + 1, CONNECTION.id),
                                       Channel(CONNECTION.channels + 2, CONNECTION.id)>>]]
          /\ UNCHANGED <<rwlock, client>>
     ELSE /\ ReconnectErr(t)
          /\ CONNECTION' = CONNECTION
  /\ UNCHANGED <<PUBLISH_CHANNEL, brokerVars, emitter, mutex, consumers>>

ReconnectEventsChannelMutant(t) ==
  /\ tasks[t].pc = "lock_events_channel"
  /\ mutex.events_channel = 0
  /\ mutex' = [mutex EXCEPT !.events_channel = t]
  /\ tasks' = [tasks EXCEPT ![t].pc = "lock_saga_channel"]
  /\ UNCHANGED <<PUBLISH_CHANNEL, brokerVars, emitter, CONNECTION, rwlock, consumers, client>>

\* reconnect: events_channel.lock().await and the replacement; the guard lives
\* to the end of the function
ReconnectEventsChannel(t) ==
  /\ tasks[t].pc = "lock_events_channel"
  /\ mutex.events_channel = 0
  /\ mutex' = [mutex EXCEPT !.events_channel = t]
  /\ client' = [client EXCEPT !.events_channel = tasks[t].created[1]]
  /\ tasks' = [tasks EXCEPT ![t].pc = "lock_saga_channel"]
  /\ UNCHANGED <<PUBLISH_CHANNEL, brokerVars, emitter, CONNECTION, rwlock, consumers>>

\* reconnect: saga_channel.lock().await and the replacement, start_consuming_*
\* of the emitters that exist (the stored emitter is handed to the consume
\* loop it spawns), the flag is cleared, Ok
ReconnectSagaChannel(t) ==
  /\ tasks[t].pc = "lock_saga_channel"
  /\ mutex.saga_channel = 0
  /\ client' = [client EXCEPT
       !.saga_channel = tasks[t].created[2],
       !.starting = [events |-> @.events + (IF client.event_emitter THEN 1 ELSE 0),
                     saga |-> @.saga + (IF client.saga_emitter THEN 1 ELSE 0)],
       !.reconnecting = FALSE]
  /\ mutex' = [mutex EXCEPT !.events_channel = 0]
  /\ rwlock' = Release(rwlock, t)
  /\ tasks' = [tasks EXCEPT ![t] = [@ EXCEPT !.pc = "returned", !.result = "Ok",
                                               !.created = <<>>]]
  /\ emitter' = IF client.event_emitter
                THEN get_or_insert_with(client.event_emitter, emitter) ELSE emitter
  /\ UNCHANGED <<PUBLISH_CHANNEL, brokerVars, CONNECTION, consumers>>

\* every call in progress has seen a closure
Disturb == [t \in Tasks |-> IF tasks[t].pc \in {"idle", "returned"} THEN tasks[t]
                            ELSE [tasks[t] EXCEPT !.disturbed = TRUE]]

\* basic_consume on a channel: an error on a dead channel; a consumer tag that
\* is in use on the channel is a channel exception, which closes the channel
BasicConsume(chan, queue, consumer_tag) ==
  IF ~Connected(chan) THEN [chan |-> chan, consumers |-> consumers]
  ELSE IF \E c \in consumers : c.channel = chan.id /\ c.consumer_tag = consumer_tag
       THEN [chan |-> [chan EXCEPT !.closed = TRUE],
             consumers |-> {c \in consumers : c.channel # chan.id}]
       ELSE [chan |-> chan, consumers |-> consumers \cup {Consumer(consumer_tag, queue, chan)}]

\* a spawned consume_events gets the events_channel guard and subscribes
ConsumeEvents ==
  /\ client.starting.events > 0
  /\ mutex.events_channel = 0
  /\ LET r == BasicConsume(client.events_channel, EventsQueueName("auth"), "event_consumer")
     IN  /\ client' = [client EXCEPT !.events_channel = r.chan, !.starting.events = @ - 1]
         /\ consumers' = r.consumers
         /\ tasks' = IF r.chan = client.events_channel THEN tasks ELSE Disturb
  /\ UNCHANGED <<PUBLISH_CHANNEL, brokerVars, emitter, CONNECTION, rwlock, mutex>>

\* a spawned consume_saga_steps gets the saga_channel guard, sets the prefetch
\* count and subscribes
ConsumeSagaSteps ==
  /\ client.starting.saga > 0
  /\ mutex.saga_channel = 0
  /\ LET chan == IF Connected(client.saga_channel) THEN BasicQos(client.saga_channel, 1)
                 ELSE client.saga_channel
         r == BasicConsume(chan, SagaQueueName("auth"), "saga_consumer")
     IN  /\ client' = [client EXCEPT !.saga_channel = r.chan, !.starting.saga = @ - 1]
         /\ consumers' = r.consumers
         /\ tasks' = IF r.chan = chan THEN tasks ELSE Disturb
  /\ UNCHANGED <<PUBLISH_CHANNEL, brokerVars, emitter, CONNECTION, rwlock, mutex>>

\* handle_event keeps the events_channel guard while emitter.emit is pending
HandleEventEmit ==
  /\ client.event_emitter
  /\ \/ mutex.events_channel = 0 /\ mutex' = [mutex EXCEPT !.events_channel = EventDispatcher]
     \/ mutex.events_channel = EventDispatcher /\ mutex' = [mutex EXCEPT !.events_channel = 0]
  /\ UNCHANGED <<PUBLISH_CHANNEL, brokerVars, emitter, CONNECTION, rwlock, client, tasks, consumers>>

\* handle_saga_step keeps the saga_channel guard while emitter.emit is pending
HandleSagaStepEmit ==
  /\ client.saga_emitter
  /\ \/ mutex.saga_channel = 0 /\ mutex' = [mutex EXCEPT !.saga_channel = SagaDispatcher]
     \/ mutex.saga_channel = SagaDispatcher /\ mutex' = [mutex EXCEPT !.saga_channel = 0]
  /\ UNCHANGED <<PUBLISH_CHANNEL, brokerVars, emitter, CONNECTION, rwlock, client, tasks, consumers>>

\* the connection is closed, by the broker or by connection.close()
CloseConnection ==
  /\ CONNECTION.closes < MaxCloses
  /\ ConnectionConnected
  /\ CONNECTION' = [CONNECTION EXCEPT !.closed = @ \cup {CONNECTION.id}, !.closes = @ + 1]
  /\ LET dead == {c \in consumers : ~c.cancelled}
     IN  /\ consumers' = (consumers \ dead) \cup Cancel(dead)
         /\ queues' = Requeue(queues, dead)
  /\ tasks' = Disturb
  /\ UNCHANGED <<PUBLISH_CHANNEL, topology, declared, channel, handler, uuid, published, policy,
                 auditTasks, auditLog, routed, observed, ended, sagaVars,
                 emitter, rwlock, client, mutex>>

\* the broker closes one channel on a channel exception (an ack or nack of
\* an unknown delivery tag), or the channel is closed with channel.close()
CloseChannel(role) ==
  /\ CONNECTION.closes < MaxCloses
  /\ Connected(client[role])
  /\ CONNECTION' = [CONNECTION EXCEPT !.closes = @ + 1]
  /\ client' = [client EXCEPT ![role].closed = TRUE]
  /\ LET dead == {c \in consumers : ~c.cancelled /\ c.channel = client[role].id}
     IN  /\ consumers' = (consumers \ dead) \cup Cancel(dead)
         /\ queues' = Requeue(queues, dead)
  /\ tasks' = Disturb
  /\ UNCHANGED <<PUBLISH_CHANNEL, topology, declared, channel, handler, uuid, published, policy,
                 auditTasks, auditLog, routed, observed, ended, sagaVars,
                 emitter, rwlock, mutex>>

SessionNext ==
  \/ \E t \in Callers, with_reconnection \in BOOLEAN : HealthCheck(t, with_reconnection)
  \/ \E t \in Callers : Reconnect(t)
  \/ \E t \in Tasks : GetConnectionRead(t)
  \/ \E t \in Tasks : GetConnectionWrite(t)
  \/ \E t \in Tasks, reachable \in BOOLEAN : CreateConnection(t, reachable)
  \/ \E t \in Tasks : CheckConnectionHealth(t)
  \/ \E t \in Tasks : CheckEventsChannelHealth(t)
  \/ \E t \in Tasks : CheckSagaChannelHealth(t)
  \/ \E t \in Tasks : Timeout(t)
  \/ \E t \in Tasks : ReconnectTask(t)
  \/ \E t \in Tasks : ReconnectRead(t)
  \/ \E t \in Tasks : ReconnectCreateChannels(t)
  \/ \E t \in Tasks : ReconnectEventsChannel(t)
  \/ \E t \in Tasks : ReconnectSagaChannel(t)
  \/ ConsumeEvents
  \/ ConsumeSagaSteps
  \/ HandleEventEmit
  \/ HandleSagaStepEmit
  \/ CloseConnection
  \/ \E role \in {"events_channel", "saga_channel"} : CloseChannel(role)

\* a service that consumes events and saga steps, and one that only publishes
Emitters == {[event_emitter |-> b, saga_emitter |-> b] : b \in BOOLEAN}

InitBrokerIdle ==
  /\ topology = NoTopology
  /\ declared = [m \in AvailableMicroservices |-> Undeclared]
  /\ queues = [q \in {} |-> <<>>]
  /\ channel = [m \in AvailableMicroservices |-> NewChannel]
  /\ handler = [m \in AvailableMicroservices |-> NoHandler]
  /\ uuid = 1
  /\ published = 0
  /\ policy = [max_retries |-> 0, max_occurrence |-> 1]
  /\ auditTasks = {}
  /\ auditLog = {}
  /\ routed = {}
  /\ observed = [m \in AvailableMicroservices |-> <<>>]
  /\ ended = {}
  /\ saga_channel = [m \in AvailableMicroservices |-> NewChannel]
  /\ command_handler = [m \in AvailableMicroservices |-> NoHandler]
  /\ steps = 0

InitSessionOnly ==
  /\ InitBrokerIdle
  /\ emitter = [events |-> <<>>]
  /\ InitSession(Emitters)

SpecSession == InitSessionOnly /\ [][SessionNext]_vars

InitEmitter ==
  /\ InitBrokerIdle
  /\ InitSessionIdle
  /\ emitter = NewEmitter

SpecEmitter == InitEmitter /\ [][EmitterNext]_vars

(***************************************************************************)
(* Consumption across a reconnect: service auth after connect_to_events    *)
(* with one handler registered, publishers of its event, the broker's      *)
(* deliveries to the consume loops, handle_event, the handler's ack, a     *)
(* connection that drops and the reconnect() the application then calls.   *)
(* Messages are known by their position in the order of the publishes.     *)
(***************************************************************************)
MaxResumePublish == 2

ResumeEvent == "auth.deleted_user"

ResumeTasks == {1}

\* publish_event of the event, on the publish channel of a live connection
ResumePublishUpTo(max) ==
  /\ published < max
  /\ ConnectionConnected
  /\ queues' = Enqueue(queues,
                       Route(topology, MATCHING, "", publish_event_headers(ResumeEvent)),
                       published + 1)
  /\ published' = published + 1
  /\ auditTasks' = auditTasks \cup
       {AuditPayload("audit.published", published + 1, "auth", "", ResumeEvent, 0,
                     published + 1)}
  /\ UNCHANGED <<topology, declared, channel, handler, uuid, policy, auditLog,
                 routed, observed, ended, sagaVars, clientVars>>

ResumePublish == ResumePublishUpTo(MaxResumePublish)

\* the broker delivers the head of the queue to a consumer whose prefetch
\* window has room, and consumer.next() of its loop returns the delivery
ConsumerNext(c) ==
  /\ ~c.cancelled
  /\ c.delivery = NoDelivery
  /\ c.queue \in DOMAIN queues
  /\ queues[c.queue] # <<>>
  /\ c.prefetch_count > 0 => Len(c.unacked) < c.prefetch_count
  /\ LET delivery == [delivery_tag |-> c.next_tag, n |-> Head(queues[c.queue])]
     IN  consumers' = (consumers \ {c}) \cup
           {[c EXCEPT !.next_tag = @ + 1, !.unacked = Append(@, delivery),
                      !.delivery = delivery]}
  /\ queues' = [queues EXCEPT ![c.queue] = Tail(@)]
  /\ UNCHANGED <<PUBLISH_CHANNEL, topology, declared, channel, handler, uuid, published, policy, auditTasks,
                 auditLog, routed, observed, ended, sagaVars,
                 CONNECTION, rwlock, client, mutex, tasks, emitter>>

\* the EventHandler handle_event builds: the delivery and a clone of the
\* channel the client holds at that moment (consumer: the channel the
\* delivery came on, not a field of the handler)
EventsConsumeChannel(chan, delivery, consumer) ==
  [event |-> ResumeEvent, n |-> delivery.n, delivery_tag |-> delivery.delivery_tag,
   channel |-> chan, consumer |-> consumer]

\* handle_event: events_channel.lock().await, then emitter.emit with the guard
\* held; the loop of a cancelled consumer ends at its next consumer.next()
HandleEvent(c) ==
  /\ c.delivery # NoDelivery
  /\ mutex.events_channel = 0
  /\ emitter.pending = NoData
  /\ LET em == Emit(emitter,
                    EventsConsumeChannel(client.events_channel, c.delivery, c.channel))
     IN  /\ emitter' = em
         /\ mutex' = IF em.pending = NoData THEN mutex
                     ELSE [mutex EXCEPT !.events_channel = EventDispatcher]
  /\ consumers' = (consumers \ {c}) \cup
                  (IF c.cancelled THEN {} ELSE {[c EXCEPT !.delivery = NoDelivery]})
  /\ auditTasks' = auditTasks \cup
       {AuditPayload("audit.received", c.delivery.n, "auth", c.queue, ResumeEvent,
                     c.delivery.delivery_tag, c.delivery.n)}
  /\ UNCHANGED <<PUBLISH_CHANNEL, topology, declared, queues, channel, handler, uuid, published, policy,
                 auditLog, routed, observed, ended, sagaVars,
                 CONNECTION, rwlock, client, tasks>>

\* the send of a pending emit completes, handle_event returns
HandleEventSend ==
  /\ mutex.events_channel = EventDispatcher
  /\ emitter.pending # NoData
  /\ Len(emitter.rx[emitter.events[emitter.pending.event]]) < MpscBuffer
  /\ emitter' = Send(emitter, emitter.pending)
  /\ mutex' = [mutex EXCEPT !.events_channel = 0]
  /\ UNCHANGED <<PUBLISH_CHANNEL, brokerVars, CONNECTION, rwlock, client, tasks, consumers>>

\* a channel the handler holds a clone of is open at the broker
ChannelOpen(chan) ==
  /\ chan.conn \notin CONNECTION.closed
  /\ chan.id = client.events_channel.id => ~client.events_channel.closed

\* the handler calls EventHandler::ack and returns: basic_ack of its delivery
\* tag on its channel; Err on a closed channel; a tag the broker does not hold
\* unacked on that channel is a channel exception
EventHandlerAck(r) ==
  /\ emitter.running[r] # NoData
  /\ LET data == emitter.running[r]
         on_channel == {c \in consumers : ~c.cancelled /\ c.channel = data.channel.id}
         holds(c) == \E i \in 1..Len(c.unacked) :
                       c.unacked[i].delivery_tag = data.delivery_tag
         acked(c) == [c EXCEPT !.unacked =
                        SelectSeq(@, LAMBDA u : u.delivery_tag # data.delivery_tag)]
     IN  IF ~ChannelOpen(data.channel)
         THEN UNCHANGED <<consumers, queues, client, auditTasks>>
         ELSE /\ auditTasks' = auditTasks \cup
                   {AuditPayload("audit.processed", data.n, "auth",
                                 EventsQueueName("auth"), ResumeEvent,
                                 data.delivery_tag, data.n)}
              /\ IF \E c \in on_channel : holds(c)
                 THEN /\ consumers' = (consumers \ on_channel)
                                         \cup {acked(c) : c \in on_channel}
                      /\ UNCHANGED <<queues, client>>
                 ELSE /\ consumers' = (consumers \ on_channel) \cup Cancel(on_channel)
                      /\ queues' = Requeue(queues, on_channel)
                      /\ client' = IF data.channel.id = client.events_channel.id
                                   THEN [client EXCEPT !.events_channel.closed = TRUE]
                                   ELSE client
  /\ emitter' = [emitter EXCEPT !.running[r] = NoData]
  /\ UNCHANGED <<PUBLISH_CHANNEL, topology, declared, channel, handler, uuid, published, policy,
                 auditLog, routed, observed, ended, sagaVars,
                 CONNECTION, rwlock, mutex, tasks>>

\* the application calls reconnect() once it has seen the connection down
ResumeReconnect(t) ==
  /\ ~ConnectionConnected
  /\ Reconnect(t)

\* what the tokio runtime and the broker do on their own
ResumeProgress ==
  \/ \E payload \in auditTasks : PublishAuditEvent(payload)
  \/ \E c \in consumers : ConsumerNext(c)
  \/ \E c \in consumers : HandleEvent(c)
  \/ HandleEventSend
  \/ \E r \in Registrations : HandlerStarts(r)
  \/ \E r \in Registrations : EventHandlerAck(r)
  \/ ConsumeEvents

NextResume ==
  \/ ResumePublish
  \/ CloseConnection
  \/ \E t \in ResumeTasks : ResumeReconnect(t)
  \/ \E t \in ResumeTasks : GetConnectionRead(t)
  \/ \E t \in ResumeTasks : GetConnectionWrite(t)
  \/ \E t \in ResumeTasks, reachable \in BOOLEAN : CreateConnection(t, reachable)
  \/ \E t \in ResumeTasks : ReconnectRead(t)
  \/ \E t \in ResumeTasks : ReconnectCreateChannels(t)
  \/ \E t \in ResumeTasks : ReconnectEventsChannel(t)
  \/ \E t \in ResumeTasks : ReconnectSagaChannel(t)
  \/ \E payload \in auditTasks : PublishAuditEvent(payload)
  \/ \E c \in consumers : ConsumerNext(c)
  \/ \E c \in consumers : HandleEvent(c)
  \/ HandleEventSend
  \/ \E r \in Registrations : HandlerStarts(r)
  \/ \E r \in Registrations : EventHandlerAck(r)
  \/ ConsumeEvents

\* RabbitMQClient::new and connect_to_events of service auth, subscribed to
\* the event, on an empty broker; then one on_with_async_handler
InitResume ==
  /\ declared = [m \in AvailableMicroservices |-> IF m = "auth" THEN {ResumeEvent} ELSE {}]
  /\ topology = ConnectAll(NoTopology, {"auth"}, declared)
  /\ queues = [q \in QueueNames(topology) |-> <<>>]
  /\ channel = [m \in AvailableMicroservices |-> NewChannel]
  /\ handler = [m \in AvailableMicroservices |-> NoHandler]
  /\ uuid = 1
  /\ published = 0
  /\ policy = [max_retries |-> 0, max_occurrence |-> 1]
  /\ auditTasks = {}
  /\ auditLog = {}
  /\ routed = {}
  /\ observed = [m \in AvailableMicroservices |-> <<>>]
  /\ ended = {}
  /\ saga_channel = [m \in AvailableMicroservices |-> NewChannel]
  /\ command_handler = [m \in AvailableMicroservices |-> NoHandler]
  /\ steps = 0
  /\ InitSession({[event_emitter |-> TRUE, saga_emitter |-> FALSE]})
  /\ emitter = [NewEmitter EXCEPT !.registered = <<ResumeEvent>>,
                                  !.events = on(NewEmitter.events, ResumeEvent, 1)]

SpecResume == InitResume /\ [][NextResume]_vars

\* the steps the tokio runtime and the broker take whenever they can: a task
\* that is ready is polled, a delivery the broker may send is sent.  When a
\* handler returns is up to the application: EventHandlerAck is not among them
ResumeFairness ==
  /\ WF_vars(HandleEventSend)
  /\ WF_vars(\E r \in Registrations : HandlerStarts(r))
  /\ WF_vars(\E c \in consumers : ConsumerNext(c))
  /\ WF_vars(\E c \in consumers : HandleEvent(c))
  /\ WF_vars(ConsumeEvents)
  /\ WF_vars(\E payload \in auditTasks : PublishAuditEvent(payload))

\* the publishes it takes to fill the buffer behind a handler that is busy
MaxBacklog == 3

BacklogPublish == ResumePublishUpTo(MaxBacklog)

NextBacklog ==
  \/ BacklogPublish
  \/ CloseConnection
  \/ \E t \in ResumeTasks : ResumeReconnect(t)
  \/ \E t \in ResumeTasks : GetConnectionRead(t)
  \/ \E t \in ResumeTasks : GetConnectionWrite(t)
  \/ \E t \in ResumeTasks, reachable \in BOOLEAN : CreateConnection(t, reachable)
  \/ \E t \in ResumeTasks : ReconnectRead(t)
  \/ \E t \in ResumeTasks : ReconnectCreateChannels(t)
  \/ \E t \in ResumeTasks : ReconnectEventsChannel(t)
  \/ \E t \in ResumeTasks : ReconnectSagaChannel(t)
  \/ \E payload \in auditTasks : PublishAuditEvent(payload)
  \/ \E c \in consumers : ConsumerNext(c)
  \/ \E c \in consumers : HandleEvent(c)
  \/ HandleEventSend
  \/ \E r \in Registrations : HandlerStarts(r)
  \/ \E r \in Registrations : EventHandlerAck(r)
  \/ ConsumeEvents

SpecBacklog == InitResume /\ [][NextBacklog]_vars /\ ResumeFairness

\* a handler that was invoked calls ack and returns
HandlerFairness == WF_vars(\E r \in Registrations : EventHandlerAck(r))

\* connect_to_events of service auth on a live connection, with the handler
\* of the event registered at some time after the consume loop has started
\* (with basic_qos(1) in force the buffer holds one context at most, so no
\* emit waits for room)
NextUnhandled ==
  \/ ResumePublish
  \/ OnWithAsyncHandler(ResumeEvent)
  \/ \E payload \in auditTasks : PublishAuditEvent(payload)
  \/ \E c \in consumers : ConsumerNext(c)
  \/ \E c \in consumers : HandleEvent(c)
  \/ \E r \in Registrations : HandlerStarts(r)
  \/ \E r \in Registrations : EventHandlerAck(r)

\* RabbitMQClient::new and connect_to_events of service auth, subscribed to
\* the event; no handler is registered yet
InitUnhandled ==
  /\ declared = [m \in AvailableMicroservices |-> IF m = "auth" THEN {ResumeEvent} ELSE {}]
  /\ topology = ConnectAll(NoTopology, {"auth"}, declared)
  /\ queues = [q \in QueueNames(topology) |-> <<>>]
  /\ channel = [m \in AvailableMicroservices |-> NewChannel]
  /\ handler = [m \in AvailableMicroservices |-> NoHandler]
  /\ uuid = 1
  /\ published = 0
  /\ policy = [max_retries |-> 0, max_occurrence |-> 1]
  /\ auditTasks = {}
  /\ auditLog = {}
  /\ routed = {}
  /\ observed = [m \in AvailableMicroservices |-> <<>>]
  /\ ended = {}
  /\ saga_channel = [m \in AvailableMicroservices |-> NewChannel]
  /\ command_handler = [m \in AvailableMicroservices |-> NoHandler]
  /\ steps = 0
  /\ InitSession({[event_emitter |-> TRUE, saga_emitter |-> FALSE]})
  /\ emitter = NewEmitter

SpecUnhandled ==
  InitUnhandled /\ [][NextUnhandled]_vars /\ ResumeFairness /\ HandlerFairness

(***************************************************************************)
(* Audit service: connect_to_audit of service audit-eda, its three consume *)
(* loops on the audit queues, handle_audit_event and the AuditHandler      *)
(* surface, next to service auth, whose event flow produces the audit      *)
(* events.  Here publish_audit_event goes through audit_exchange.          *)
(***************************************************************************)
MaxAuditCalls == 1   \* ack / nack calls an audit handler makes on one context

\* AvailableMicroservices::AuditEda
AuditEda == "audit-eda"

\* the queue consume_audit_published_events subscribes to
AUDIT_PUBLISHED_COMMANDS == "audit_published_commands"

\* the event types publish_audit_event is called with, and the queue
\* handle_audit_event pairs with each
AuditQueue ==
  [kind \in {"audit.published", "audit.received", "audit.processed", "audit.dead_letter"} |->
     CASE kind = "audit.published" -> AUDIT_PUBLISHED_COMMANDS
       [] kind = "audit.received" -> AUDIT_RECEIVED_COMMANDS
       [] kind = "audit.processed" -> AUDIT_PROCESSED_COMMANDS
       [] kind = "audit.dead_letter" -> AUDIT_DEAD_LETTER_COMMANDS]

\* the queues start_consuming_audit spawns a consume loop for
AuditConsumers ==
  {AUDIT_RECEIVED_COMMANDS, AUDIT_PROCESSED_COMMANDS, AUDIT_DEAD_LETTER_COMMANDS}

\* handle_audit_event: the event type is decided by the queue name
handle_audit_event(queue_name) ==
  IF \E kind \in DOMAIN AuditQueue : AuditQueue[kind] = queue_name
  THEN CHOOSE kind \in DOMAIN AuditQueue : AuditQueue[kind] = queue_name
  ELSE "InvalidHeader"

\* the services whose event flow is audited
AuditedMicroservices == {"auth"}

\* publish_audit_event: the payload is published on audit_exchange with its
\* event type as routing key, persistent, content-type JSON, no headers
AuditPublish(payload) ==
  /\ payload \in auditTasks
  /\ auditTasks' = auditTasks \ {payload}
  /\ auditLog' = auditLog \cup {payload}
  /\ LET msg == Message(AUDIT, payload.kind, payload, FieldTableDefault, NoneStr, None,
                        NoneStr, "application/json", NoChain)
     IN  queues' = Enqueue(queues, Route(topology, AUDIT, payload.kind, FieldTableDefault),
                           msg)
  /\ UNCHANGED <<clientVars, sagaVars, topology, declared, channel, handler, uuid,
                 published, policy, routed, observed, ended>>

\* the delivery of the handler of queue q is unacked on the events channel of
\* audit-eda
Outstanding(q) ==
  handler[q].held /\ handler[q].delivery.delivery_tag \in channel[AuditEda].unacked

\* consume_audit_*_events: the next delivery of audit queue q, through
\* handle_audit_event (basic_qos(1) is a limit per consumer); calls, terminal
\* and last are not in the program: the calls made on the handler, the
\* basic_ack / basic_nack they issued and the method called last
AuditDeliver(q) ==
  /\ channel[AuditEda].open
  /\ ~Outstanding(q)
  /\ queues[q] # <<>>
  /\ LET msg == Head(queues[q])
         tag == channel[AuditEda].next_tag
     IN  /\ queues' = [queues EXCEPT ![q] = Tail(@)]
         /\ channel' = [channel EXCEPT ![AuditEda].next_tag = @ + 1,
                                       ![AuditEda].unacked = @ \cup {tag}]
         /\ handler' = [handler EXCEPT ![q] =
              [held |-> TRUE, delivery |-> MyDelivery(tag, msg), queue_name |-> q,
               event |-> handle_audit_event(q), payload |-> msg.data,
               calls |-> 0, terminal |-> 0, last |-> "", chain |-> msg.chain]]
  /\ UNCHANGED <<clientVars, sagaVars, topology, declared, uuid, published, policy,
                 auditTasks, auditLog, routed, observed, ended>>

AuditHandlerSpawnsMutant(h, kind, retry_count) ==
  {AuditPayload(kind, 0, AuditEda, h.queue_name, h.event, retry_count, 0)}

\* the publish_audit_event tasks a call on an AuditHandler spawns: none
\* (audit_ack and ack are channel.ack(), the nacks are channel.nack.with_*)
AuditHandlerSpawns(h, kind, retry_count) == {}

\* AuditHandler::ack and AuditHandler::audit_ack
AuditHandlerAck(q, audit_ack) ==
  /\ handler[q].held
  /\ handler[q].calls < MaxAuditCalls
  /\ IF ~channel[AuditEda].open
     THEN /\ handler' = [handler EXCEPT ![q].calls = @ + 1,
                                        ![q].last = IF audit_ack THEN "audit_ack" ELSE "ack"]
          /\ UNCHANGED <<channel, auditTasks>>
     ELSE /\ channel' = [channel EXCEPT ![AuditEda] =
                           Settle(@, handler[q].delivery.delivery_tag)]
          /\ handler' = [handler EXCEPT ![q].calls = @ + 1, ![q].terminal = @ + 1,
                                        ![q].last = IF audit_ack THEN "audit_ack" ELSE "ack"]
          /\ auditTasks' = auditTasks \cup
               AuditHandlerSpawns(handler[q], "audit.processed", 0)
  /\ UNCHANGED <<clientVars, sagaVars, topology, declared, queues, uuid, published, policy,
                 auditLog, routed, observed, ended>>

\* AuditHandler::nack_with_delay / nack_with_fibonacci_strategy: `r` is the
\* result of Nack::with_delay / with_fibonacci_strategy
AuditHandlerNack(q, r, fibo) ==
  /\ handler[q].held
  /\ handler[q].calls < MaxAuditCalls
  /\ IF ~channel[AuditEda].open
     THEN /\ handler' = [handler EXCEPT ![q].calls = @ + 1,
                                        ![q].last = IF fibo THEN "fibonacci_strategy"
                                                    ELSE "delay"]
          /\ UNCHANGED <<channel, queues, auditTasks>>
     ELSE LET h == handler[q]
              live == h.delivery.delivery_tag \in channel[AuditEda].unacked
              msg == Message(r.requeue.exchange, r.requeue.routing_key, r.requeue.data,
                             r.requeue.headers, r.requeue.app_id, r.requeue.message_id,
                             r.requeue.expiration, r.requeue.content_type,
                             NextChain(h, fibo))
          IN  /\ channel' = [channel EXCEPT ![AuditEda] = Settle(@, h.delivery.delivery_tag)]
              /\ handler' = [handler EXCEPT ![q].calls = @ + 1, ![q].terminal = @ + 1,
                                            ![q].last = IF fibo THEN "fibonacci_strategy"
                                                        ELSE "delay"]
              /\ queues' = IF live /\ r.requeue.publish
                           THEN Enqueue(queues,
                                        Route(topology, r.requeue.exchange,
                                              r.requeue.routing_key, r.requeue.headers),
                                        msg)
                           ELSE queues
              /\ auditTasks' = auditTasks \cup
                   AuditHandlerSpawns(h, "audit.dead_letter", r.count)
  /\ UNCHANGED <<clientVars, sagaVars, topology, declared, uuid, published, policy,
                 auditLog, routed, observed, ended>>

AuditHandlerNackWithDelay(q, delay) ==
  /\ handler[q].held
  /\ AuditHandlerNack(q, with_delay(handler[q].delivery, q, delay, policy.max_retries),
                      FALSE)

AuditHandlerNackWithFibonacciStrategy(q) ==
  /\ handler[q].held
  /\ AuditHandlerNack(q, with_fibonacci_strategy(handler[q].delivery, q,
                                                 policy.max_occurrence, policy.max_retries),
                      TRUE)

NextAudit ==
  \/ \E m \in AuditedMicroservices, event \in MicroserviceEvent : PublishEvent(m, event)
  \/ \E payload \in auditTasks : AuditPublish(payload)
  \/ \E m \in AuditedMicroservices : Deliver(m)
  \/ \E m \in AuditedMicroservices : HandlerAck(m)
  \/ \E m \in AuditedMicroservices, delay \in Delays, sent \in BOOLEAN :
       HandlerNackWithDelay(m, delay, sent)
  \/ \E q \in DOMAIN queues : Expire(q)
  \/ \E q \in AuditConsumers : AuditDeliver(q)
  \/ \E q \in AuditConsumers, audit_ack \in BOOLEAN : AuditHandlerAck(q, audit_ack)
  \/ \E q \in AuditConsumers, delay \in Delays : AuditHandlerNackWithDelay(q, delay)
  \/ \E q \in AuditConsumers : AuditHandlerNackWithFibonacciStrategy(q)

\* connect_to_events of auth, subscribed to every event, and connect_to_audit
\* of audit-eda, on an empty broker
InitAudit ==
  /\ declared = [m \in AvailableMicroservices |->
                   IF m \in AuditedMicroservices THEN MicroserviceEvent ELSE {}]
  /\ topology = CreateAuditLoggingResources(
                  ConnectAll(NoTopology, AuditedMicroservices, declared))
  /\ queues = [q \in QueueNames(topology) |-> <<>>]
  /\ channel = [m \in AvailableMicroservices \cup {AuditEda} |-> NewChannel]
  /\ handler = [m \in AvailableMicroservices \cup AuditConsumers |-> NoHandler]
  /\ uuid = 1
  /\ published = 0
  /\ policy \in [max_retries : 0..FlowRetries, max_occurrence : {2}]
  /\ auditTasks = {}
  /\ auditLog = {}
  /\ routed = {}
  /\ observed = [m \in AvailableMicroservices |-> <<>>]
  /\ ended = {}
  /\ InitSagaIdle

SpecAudit == InitAudit /\ [][NextAudit]_vars

(***************************************************************************)
(* Dispatch errors: service auth after connect_to_events and               *)
(* connect_to_saga_commands; publishers put well-formed and malformed      *)
(* messages in its two intake queues, the handlers ack what reaches them.  *)
(***************************************************************************)
MaxDispatch == 4     \* messages the publishers send to the intake queues

\* the headers of the messages: the tag of an event, no header at all, and a
\* header whose value names no event
DispatchHeaders ==
  {publish_event_headers("auth.deleted_user"), FieldTableDefault,
   Insert(FieldTableDefault, "EVENT", LongString("invalid_event"))}

\* a publisher's message for the events queue of auth: on matching_exchange,
\* or on the default exchange with the queue name as routing key
DispatchPublish(exchange, data, headers) ==
  /\ published + steps < MaxDispatch
  /\ LET routing_key == IF exchange = "" THEN EventsQueueName("auth") ELSE ""
         msg == Message(exchange, routing_key, data, headers, NoneStr, None, NoneStr,
                        "", NoChain)
     IN  queues' = Enqueue(queues, Route(topology, exchange, routing_key, headers), msg)
  /\ published' = published + 1
  /\ UNCHANGED <<clientVars, sagaVars, topology, declared, channel, handler, uuid, policy,
                 auditTasks, auditLog, routed, observed, ended>>

\* the orchestrator's step for auth
DispatchSend(command, previous_payload) ==
  /\ published + steps < MaxDispatch
  /\ LET routing_key == SagaQueueName("auth") \o "_routing_key"
         step == SagaStep("auth", command, "pending", steps + 1, EmptyMap, previous_payload)
         msg == Message(COMMANDS, routing_key, step, FieldTableDefault, NoneStr, NoneStr,
                        NoneStr, "application/json", NoChain)
     IN  queues' = Enqueue(queues, Route(topology, COMMANDS, routing_key, FieldTableDefault),
                           msg)
  /\ steps' = steps + 1
  /\ UNCHANGED <<clientVars, topology, declared, eventVars, saga_channel, command_handler>>

\* the registered handlers: each acks the delivery it was given, once
DispatchHandlerAck ==
  /\ handler["auth"].held
  /\ handler["auth"].delivery.delivery_tag \in channel["auth"].unacked
  /\ HandlerAck("auth")

DispatchCommandAck ==
  /\ command_handler["auth"].held
  /\ command_handler["auth"].delivery.delivery_tag \in saga_channel["auth"].unacked
  /\ CommandAck("auth", Object(EmptyMap), TRUE)

\* what the consume loops, the handlers and the spawned tasks do on their own
DispatchProgress ==
  \/ Deliver("auth")
  \/ DeliverSaga("auth")
  \/ DispatchHandlerAck
  \/ DispatchCommandAck
  \/ \E payload \in auditTasks : PublishAuditEvent(payload)

NextDispatch ==
  \/ \E exchange \in {MATCHING, ""}, data \in {"json-object", "not-json"},
        headers \in DispatchHeaders : DispatchPublish(exchange, data, headers)
  \/ \E command \in StepCommand \cup {"no_such_command"} : DispatchSend(command, EmptyMap)
  \/ Deliver("auth")
  \/ DeliverSaga("auth")
  \/ DispatchHandlerAck
  \/ DispatchCommandAck
  \/ \E payload \in auditTasks : PublishAuditEvent(payload)

InitDispatch ==
  /\ declared = [m \in AvailableMicroservices |->
                   IF m = "auth" THEN MicroserviceEvent ELSE {}]
  /\ topology = QueueDeclare(
                  CreateConsumer(ConnectAll(NoTopology, {"auth"}, declared),
                                 SagaQueueName("auth"), COMMANDS),
                  REPLY_TO_SAGA, FieldTableDefault)
  /\ queues = [q \in QueueNames(topology) |-> <<>>]
  /\ channel = [m \in AvailableMicroservices |-> NewChannel]
  /\ handler = [m \in AvailableMicroservices |-> NoHandler]
  /\ uuid = 1
  /\ published = 0
  /\ policy = [max_retries |-> 0, max_occurrence |-> 1]
  /\ auditTasks = {}
  /\ auditLog = {}
  /\ routed = {}
  /\ observed = [m \in AvailableMicroservices |-> <<>>]
  /\ ended = {}
  /\ InitSagaIdle

SpecDispatch == InitDispatch /\ [][NextDispatch]_vars

(***************************************************************************)
(* Publishers: publish_event, commence_saga, the saga reply (send) and     *)
(* publish_audit_event, called concurrently in the process of service      *)
(* auth.  Each call gets the shared publish channel with                   *)
(* get_or_init_publish_channel, locks it and publishes.  The connection    *)
(* and the publish channel may go down meanwhile, and the transactional    *)
(* service may declare the saga queues.                                    *)
(***************************************************************************)
MaxPublishers == 2   \* concurrent calls of a publisher

Publishers == 1..MaxPublishers

PublisherCalls == {"publish_event", "commence_saga", "send", "publish_audit_event"}

\* SagaTitle (one of the variants)
SagaTitle == {"transfer_crypto_reward_to_mission_winner"}

\* CommenceSaga<T>: the envelope commence_saga serializes
CommenceSagaEnvelope(title, payload) == [title |-> title, payload |-> payload]

\* a publisher's call: handle is the Arc get_or_init_publish_channel returned
\* (the task that made it; 0: none), connected the status of the channel in
\* it at that return
PublisherTask == IdleTask @@ [handle |-> 0, connected |-> FALSE]

OnceCellSetMutant(cell, arc, chan) == [set |-> TRUE, arc |-> arc, channel |-> chan]

\* OnceCell::set: only the first one sets
OnceCellSet(cell, arc, chan) ==
  IF cell.set THEN cell ELSE [set |-> TRUE, arc |-> arc, channel |-> chan]

\* a publisher is called: get_or_init_publish_channel reads RABBIT_URI and
\* calls get_connection
PublisherCall(t, call) ==
  /\ tasks[t].pc = "idle"
  /\ \A u \in Publishers : u < t => tasks[u].pc # "idle"
  /\ tasks' = [tasks EXCEPT ![t] = [@ EXCEPT !.call = call, !.pc = "current_connection",
                                               !.conn = "read"]]
  /\ UNCHANGED <<brokerVars, CONNECTION, rwlock, client, mutex, consumers, emitter,
                 PUBLISH_CHANNEL>>

\* get_or_init_publish_channel: get_connection(..).await?.read().await, then
\* PUBLISH_CHANNEL.get()
GetOrInitRead(t) ==
  /\ tasks[t].call \in PublisherCalls
  /\ tasks[t].pc = "current_connection"
  /\ tasks[t].conn = "got"
  /\ rwlock.writer = 0
  /\ rwlock' = [rwlock EXCEPT !.readers = @ \cup {t}]
  /\ tasks' = [tasks EXCEPT ![t] = [@ EXCEPT !.conn = "",
                 !.pc = IF PUBLISH_CHANNEL.set THEN "lock_publish_channel"
                        ELSE "create_channel"]]
  /\ UNCHANGED <<brokerVars, CONNECTION, client, mutex, consumers, emitter,
                 PUBLISH_CHANNEL>>

\* get_or_init_publish_channel returns Err: its guards are dropped
GetOrInitErr(t) ==
  /\ tasks' = [tasks EXCEPT ![t] = [@ EXCEPT !.pc = "returned", !.result = "Err"]]
  /\ rwlock' = Release(rwlock, t)
  /\ mutex' = [mutex EXCEPT !.publish_channel = IF @ = t THEN 0 ELSE @]

\* get_or_init_publish_channel returns Ok(PUBLISH_CHANNEL.get().clone())
GetOrInitOk(t, cell, checked) ==
  /\ tasks' = [tasks EXCEPT ![t] = [@ EXCEPT !.pc = "publish", !.handle = cell.arc,
                                               !.healthy = checked,
                                               !.connected = Connected(cell.channel)]]
  /\ rwlock' = Release(rwlock, t)
  /\ mutex' = [mutex EXCEPT !.publish_channel = IF @ = t THEN 0 ELSE @]

\* the None arm: connection.create_channel().await?, PUBLISH_CHANNEL.set(..)
GetOrInitNone(t) ==
  /\ tasks[t].pc = "create_channel"
  /\ tasks[t].call \in PublisherCalls
  /\ IF ConnectionConnected
     THEN LET chan == Channel(CONNECTION.channels + 1, CONNECTION.id)
              cell == OnceCellSet(PUBLISH_CHANNEL, t, chan)
          IN  /\ CONNECTION' = [CONNECTION EXCEPT !.channels = @ + 1]
              /\ PUBLISH_CHANNEL' = cell
              /\ GetOrInitOk(t, cell, FALSE)
     ELSE /\ GetOrInitErr(t)
          /\ UNCHANGED <<CONNECTION, PUBLISH_CHANNEL>>
  /\ UNCHANGED <<brokerVars, client, consumers, emitter>>

\* the Some arm: channel.lock().await and the status check
GetOrInitLock(t) ==
  /\ tasks[t].pc = "lock_publish_channel"
  /\ mutex.publish_channel = 0
  /\ IF Connected(PUBLISH_CHANNEL.channel)
     THEN GetOrInitOk(t, PUBLISH_CHANNEL, TRUE)
     ELSE /\ mutex' = [mutex EXCEPT !.publish_channel = t]
          /\ tasks' = [tasks EXCEPT ![t].pc = "replace_channel"]
          /\ rwlock' = rwlock
  /\ UNCHANGED <<brokerVars, CONNECTION, client, consumers, emitter, PUBLISH_CHANNEL>>

\* the Some arm: connection.create_channel().await? and *chan = new_channel
GetOrInitReplace(t) ==
  /\ tasks[t].pc = "replace_channel"
  /\ IF ConnectionConnected
     THEN LET chan == Channel(CONNECTION.channels + 1, CONNECTION.id)
              cell == [PUBLISH_CHANNEL EXCEPT !.channel = chan]
          IN  /\ CONNECTION' = [CONNECTION EXCEPT !.channels = @ + 1]
              /\ PUBLISH_CHANNEL' = cell
              /\ GetOrInitOk(t, cell, FALSE)
     ELSE /\ GetOrInitErr(t)
          /\ UNCHANGED <<CONNECTION, PUBLISH_CHANNEL>>
  /\ UNCHANGED <<brokerVars, client, consumers, emitter>>

RabbitMQClient_sendMutant(queue_name, payload, corr) ==
  Message(REQUEUE, queue_name, payload, FieldTableDefault, NoneStr, NoneStr, NoneStr,
          "application/json", [NoChain EXCEPT !.corr = corr])

\* RabbitMQClient::send: the message it publishes, to the default exchange
\* with the queue name as routing key; it declares nothing
RabbitMQClient_send(queue_name, payload, corr) ==
  Message("", queue_name, payload, FieldTableDefault, NoneStr, NoneStr, NoneStr,
          "application/json", [NoChain EXCEPT !.corr = corr])

\* what each publisher sends with basic_publish (corr, not on the wire: the
\* call that sent it)
PublisherMessage(t, call) ==
  CASE call = "publish_event" ->
         Message(MATCHING, "", "json-object", publish_event_headers(ResumeEvent),
                 Some("auth"), Some(t), NoneStr, "application/json",
                 [NoChain EXCEPT !.corr = t])
    [] call = "commence_saga" ->
         RabbitMQClient_send(COMMENCE_SAGA,
                             CommenceSagaEnvelope(CHOOSE title \in SagaTitle : TRUE,
                                                  Object(EmptyMap)), t)
    [] call = "send" ->
         RabbitMQClient_send(REPLY_TO_SAGA,
                             SagaStep("auth", "create_image", "success", t, EmptyMap,
                                      EmptyMap), t)
    [] call = "publish_audit_event" ->
         Message(AUDIT, "audit.processed",
                 AuditPayload("audit.processed", t, "auth", EventsQueueName("auth"),
                              ResumeEvent, 0, t),
                 FieldTableDefault, NoneStr, None, NoneStr, "application/json",
                 [NoChain EXCEPT !.corr = t])

\* the publisher locks the handle and publishes on the channel in it: Err on
\* a channel that is not connected; publish_event then spawns the
\* audit.published task
PublisherPublish(t) ==
  /\ tasks[t].pc = "publish"
  /\ mutex.publish_channel = 0
  /\ LET msg == PublisherMessage(t, tasks[t].call)
         ok == Connected(PUBLISH_CHANNEL.channel)
     IN  /\ queues' = IF ok
                      THEN Enqueue(queues, Route(topology, msg.exchange, msg.routing_key,
                                                 msg.headers), msg)
                      ELSE queues
         /\ auditTasks' = IF ok /\ tasks[t].call = "publish_event"
                          THEN auditTasks \cup
                                 {AuditPayload("audit.published", t, "auth", "", ResumeEvent,
                                               0, t)}
                          ELSE auditTasks
         /\ tasks' = [tasks EXCEPT ![t] = [@ EXCEPT !.pc = "returned",
                                                      !.result = IF ok THEN "Ok" ELSE "Err"]]
  /\ UNCHANGED <<topology, declared, channel, handler, uuid, published, policy, auditLog,
                 routed, observed, ended, sagaVars, CONNECTION, rwlock, client, mutex,
                 consumers, emitter, PUBLISH_CHANNEL>>

\* the broker closes the publish channel (a channel exception)
ClosePublishChannel ==
  /\ CONNECTION.closes < MaxCloses
  /\ PUBLISH_CHANNEL.set
  /\ Connected(PUBLISH_CHANNEL.channel)
  /\ CONNECTION' = [CONNECTION EXCEPT !.closes = @ + 1]
  /\ PUBLISH_CHANNEL' = [PUBLISH_CHANNEL EXCEPT !.channel.closed = TRUE]
  /\ UNCHANGED <<brokerVars, rwlock, client, mutex, tasks, consumers, emitter>>

\* the transactional service declares the queues it listens on
DeclareSagaQueues ==
  /\ COMMENCE_SAGA \notin QueueNames(topology)
  /\ topology' = QueueDeclare(QueueDeclare(topology, COMMENCE_SAGA, FieldTableDefault),
                              REPLY_TO_SAGA, FieldTableDefault)
  /\ queues' = [q \in QueueNames(topology') |-> IF q \in DOMAIN queues THEN queues[q]
                                                 ELSE <<>>]
  /\ UNCHANGED <<declared, channel, handler, uuid, published, policy, auditTasks, auditLog,
                 routed, observed, ended, sagaVars, clientVars>>

NextPublish ==
  \/ \E t \in Publishers, call \in PublisherCalls : PublisherCall(t, call)
  \/ \E t \in Publishers : GetConnectionRead(t)
  \/ \E t \in Publishers : GetConnectionWrite(t)
  \/ \E t \in Publishers, reachable \in BOOLEAN : CreateConnection(t, reachable)
  \/ \E t \in Publishers : GetOrInitRead(t)
  \/ \E t \in Publishers : GetOrInitNone(t)
  \/ \E t \in Publishers : GetOrInitLock(t)
  \/ \E t \in Publishers : GetOrInitReplace(t)
  \/ \E t \in Publishers : PublisherPublish(t)
  \/ \E payload \in auditTasks : PublishAuditEvent(payload)
  \/ CloseConnection
  \/ ClosePublishChannel
  \/ DeclareSagaQueues

\* RabbitMQClient::new and connect_to_events of service auth on an empty
\* broker; no publisher has run yet
InitPublish ==
  /\ declared = [m \in AvailableMicroservices |-> IF m = "auth" THEN {ResumeEvent} ELSE {}]
  /\ topology = ConnectAll(NoTopology, {"auth"}, declared)
  /\ queues = [q \in QueueNames(topology) |-> <<>>]
  /\ channel = [m \in AvailableMicroservices |-> NewChannel]
  /\ handler = [m \in AvailableMicroservices |-> NoHandler]
  /\ uuid = 1
  /\ published = 0
  /\ policy = [max_retries |-> 0, max_occurrence |-> 1]
  /\ auditTasks = {}
  /\ auditLog = {}
  /\ routed = {}
  /\ observed = [m \in AvailableMicroservices |-> <<>>]
  /\ ended = {}
  /\ saga_channel = [m \in AvailableMicroservices |-> NewChannel]
  /\ command_handler = [m \in AvailableMicroservices |-> NoHandler]
  /\ steps = 0
  /\ CONNECTION = [id |-> 1, closed |-> {}, channels |-> 2, closes |-> 0]
  /\ rwlock = [readers |-> {}, writer |-> 0]
  /\ client = [events_channel |-> BasicQos(Channel(1, 1), 1),
               saga_channel |-> BasicQos(Channel(2, 1), 1),
               event_emitter |-> FALSE, saga_emitter |-> FALSE,
               reconnecting |-> FALSE, starting |-> [events |-> 0, saga |-> 0]]
  /\ consumers = {}
  /\ mutex = [events_channel |-> 0, saga_channel |-> 0, publish_channel |-> 0]
  /\ tasks = [t \in Tasks |-> PublisherTask]
  /\ emitter = [events |-> <<>>]
  /\ PUBLISH_CHANNEL = NoPublishChannel

SpecPublish == InitPublish /\ [][NextPublish]_vars

(***************************************************************************)
(* cleanup(), called while the connection or a role channel may already    *)
(* be down and the broker may be unreachable.                              *)
(***************************************************************************)
\* channel.close(0, "Cleanup") on a role channel: Err, logged, on a channel
\* that is not connected; a closed channel cancels its consumers
ChannelClose(role) ==
  /\ client' = IF Connected(client[role]) THEN [client EXCEPT ![role].closed = TRUE]
               ELSE client
  /\ LET dead == {c \in consumers : ~c.cancelled /\ c.channel = client[role].id
                                    /\ Connected(client[role])}
     IN  /\ consumers' = (consumers \ dead) \cup Cancel(dead)
         /\ queues' = Requeue(queues, dead)

\* cleanup() is called
CleanupCall(t) ==
  /\ tasks[t].pc = "idle"
  /\ NextCaller(t)
  /\ tasks' = [tasks EXCEPT ![t] = [@ EXCEPT !.call = "cleanup", !.pc = "events_channel"]]
  /\ UNCHANGED <<brokerVars, CONNECTION, rwlock, client, mutex, consumers, emitter,
                 PUBLISH_CHANNEL>>

\* self.events_channel.lock().await and channel.close; the guard lives to
\* the end of cleanup
CleanupEventsChannel(t) ==
  /\ tasks[t].call = "cleanup"
  /\ tasks[t].pc = "events_channel"
  /\ mutex.events_channel = 0
  /\ mutex' = [mutex EXCEPT !.events_channel = t]
  /\ ChannelClose("events_channel")
  /\ tasks' = [tasks EXCEPT ![t].pc = "saga_channel"]
  /\ UNCHANGED <<topology, declared, channel, handler, uuid, published, policy, auditTasks,
                 auditLog, routed, observed, ended, sagaVars, CONNECTION, rwlock, emitter,
                 PUBLISH_CHANNEL>>

\* self.saga_channel.lock().await and channel.close, then current_connection
CleanupSagaChannel(t) ==
  /\ tasks[t].call = "cleanup"
  /\ tasks[t].pc = "saga_channel"
  /\ mutex.saga_channel = 0
  /\ mutex' = [mutex EXCEPT !.saga_channel = t]
  /\ ChannelClose("saga_channel")
  /\ tasks' = [tasks EXCEPT ![t] = [@ EXCEPT !.pc = "current_connection", !.conn = "read"]]
  /\ UNCHANGED <<topology, declared, channel, handler, uuid, published, policy, auditTasks,
                 auditLog, routed, observed, ended, sagaVars, CONNECTION, rwlock, emitter,
                 PUBLISH_CHANNEL>>

\* cleanup ends: its two channel guards are dropped
CleanupEnds(t, result) ==
  /\ tasks' = [tasks EXCEPT ![t] = [@ EXCEPT !.pc = "returned", !.result = result,
                                               !.conn = ""]]
  /\ rwlock' = Release(rwlock, t)
  /\ mutex' = [mutex EXCEPT !.events_channel = 0, !.saga_channel = 0]

\* current_connection returned Ok: conn.read().await.close(0, "Cleanup"),
\* an Err of it is logged, and cleanup returns
CleanupCloseConnection(t) ==
  /\ tasks[t].call = "cleanup"
  /\ tasks[t].pc = "current_connection"
  /\ tasks[t].conn = "got"
  /\ rwlock.writer = 0
  /\ CONNECTION' = IF ConnectionConnected
                   THEN [CONNECTION EXCEPT !.closed = @ \cup {CONNECTION.id}]
                   ELSE CONNECTION
  /\ LET dead == {c \in consumers : ~c.cancelled /\ ConnectionConnected}
     IN  /\ consumers' = (consumers \ dead) \cup Cancel(dead)
         /\ queues' = Requeue(queues, dead)
  /\ CleanupEnds(t, "returned")
  /\ UNCHANGED <<topology, declared, channel, handler, uuid, published, policy, auditTasks,
                 auditLog, routed, observed, ended, sagaVars, client, emitter,
                 PUBLISH_CHANNEL>>

\* current_connection returned the BackoffError of a broker that stayed
\* unreachable: the else branch is unreachable!(..), a panic
CleanupNoConnection(t) ==
  /\ tasks[t].call = "cleanup"
  /\ tasks[t].pc = "current_connection"
  /\ tasks[t].conn = "connect"
  /\ CleanupEnds(t, "panic")
  /\ UNCHANGED <<brokerVars, CONNECTION, client, consumers, emitter, PUBLISH_CHANNEL>>

NextCleanup ==
  \/ \E t \in Callers : CleanupCall(t)
  \/ \E t \in Callers : CleanupEventsChannel(t)
  \/ \E t \in Callers : CleanupSagaChannel(t)
  \/ \E t \in Callers : GetConnectionRead(t)
  \/ \E t \in Callers : GetConnectionWrite(t)
  \/ \E t \in Callers : CreateConnection(t, TRUE)
  \/ \E t \in Callers : CleanupNoConnection(t)
  \/ \E t \in Callers : CleanupCloseConnection(t)
  \/ CloseConnection
  \/ \E role \in {"events_channel", "saga_channel"} : CloseChannel(role)

SpecCleanup == InitSessionOnly /\ [][NextCleanup]_vars

(***************************************************************************)
(* Reconnect after the broker lost its definitions: the session of service *)
(* auth as above, with a broker that may restart empty (a node without     *)
(* persistent storage, a failover to a new node).                          *)
(***************************************************************************)
\* the broker restarts: the connection is closed, and the exchanges, queues,
\* bindings and messages are gone
BrokerRestart ==
  /\ CONNECTION.closes < MaxCloses
  /\ ConnectionConnected
  /\ CONNECTION' = [CONNECTION EXCEPT !.closed = @ \cup {CONNECTION.id}, !.closes = @ + 1]
  /\ LET dead == {c \in consumers : ~c.cancelled}
     IN  consumers' = (consumers \ dead) \cup Cancel(dead)
  /\ topology' = NoTopology
  /\ queues' = [q \in {} |-> <<>>]
  /\ tasks' = Disturb
  /\ UNCHANGED <<declared, channel, handler, uuid, published, policy, auditTasks, auditLog,
                 routed, observed, ended, sagaVars, emitter, rwlock, client, mutex,
                 PUBLISH_CHANNEL>>

\* a spawned consume_events on a broker without the events queue: basic_consume
\* is answered with NOT_FOUND, which closes the channel, and the task ends
ConsumeEventsNotFound ==
  /\ client.starting.events > 0
  /\ mutex.events_channel = 0
  /\ EventsQueueName("auth") \notin QueueNames(topology)
  /\ client' = [client EXCEPT
                  !.events_channel.closed = @ \/ Connected(client.events_channel),
                  !.starting.events = @ - 1]
  /\ tasks' = IF Connected(client.events_channel) THEN Disturb ELSE tasks
  /\ UNCHANGED <<brokerVars, emitter, CONNECTION, rwlock, mutex, consumers, PUBLISH_CHANNEL>>

\* a spawned consume_events on a broker that has the events queue
ConsumeEventsFound ==
  /\ EventsQueueName("auth") \in QueueNames(topology)
  /\ ConsumeEvents

NextRestart ==
  \/ ResumePublish
  \/ CloseConnection
  \/ BrokerRestart
  \/ \E t \in ResumeTasks : ResumeReconnect(t)
  \/ \E t \in ResumeTasks : GetConnectionRead(t)
  \/ \E t \in ResumeTasks : GetConnectionWrite(t)
  \/ \E t \in ResumeTasks, reachable \in BOOLEAN : CreateConnection(t, reachable)
  \/ \E t \in ResumeTasks : ReconnectRead(t)
  \/ \E t \in ResumeTasks : ReconnectCreateChannels(t)
  \/ \E t \in ResumeTasks : ReconnectEventsChannel(t)
  \/ \E t \in ResumeTasks : ReconnectSagaChannel(t)
  \/ \E payload \in auditTasks : PublishAuditEvent(payload)
  \/ \E c \in consumers : ConsumerNext(c)
  \/ \E c \in consumers : HandleEvent(c)
  \/ HandleEventSend
  \/ \E r \in Registrations : HandlerStarts(r)
  \/ \E r \in Registrations : EventHandlerAck(r)
  \/ ConsumeEventsFound
  \/ ConsumeEventsNotFound

SpecRestart == InitResume /\ [][NextRestart]_vars

(***************************************************************************)
(* Locks: health checks, reconnect() and cleanup() called on clones of one *)
(* client while the consume loops and dispatchers run and the connection   *)
(* or a role channel may go down.                                          *)
(***************************************************************************)
\* create_connection returns in a call of get_connection; the BackoffError
\* inside cleanup is CleanupNoConnection
LocksCreateConnection(t, reachable) ==
  /\ reachable \/ tasks[t].call # "cleanup"
  /\ CreateConnection(t, reachable)

NextLocks ==
  \/ \E t \in Callers, with_reconnection \in BOOLEAN : HealthCheck(t, with_reconnection)
  \/ \E t \in Callers : Reconnect(t)
  \/ \E t \in Callers : CleanupCall(t)
  \/ \E t \in Tasks : GetConnectionRead(t)
  \/ \E t \in Tasks : GetConnectionWrite(t)
  \/ \E t \in Tasks, reachable \in BOOLEAN : LocksCreateConnection(t, reachable)
  \/ \E t \in Tasks : CheckConnectionHealth(t)
  \/ \E t \in Tasks : CheckEventsChannelHealth(t)
  \/ \E t \in Tasks : CheckSagaChannelHealth(t)
  \/ \E t \in Tasks : Timeout(t)
  \/ \E t \in Tasks : ReconnectTask(t)
  \/ \E t \in Tasks : ReconnectRead(t)
  \/ \E t \in Tasks : ReconnectCreateChannels(t)
  \/ \E t \in Tasks : ReconnectEventsChannel(t)
  \/ \E t \in Tasks : ReconnectSagaChannel(t)
  \/ \E t \in Callers : CleanupEventsChannel(t)
  \/ \E t \in Callers : CleanupSagaChannel(t)
  \/ \E t \in Callers : CleanupNoConnection(t)
  \/ \E t \in Callers : CleanupCloseConnection(t)
  \/ ConsumeEvents
  \/ ConsumeSagaSteps
  \/ HandleEventEmit
  \/ HandleSagaStepEmit
  \/ CloseConnection
  \/ \E role \in {"events_channel", "saga_channel"} : CloseChannel(role)

SpecLocks == InitSessionOnly /\ [][NextLocks]_vars

(***************************************************************************)
(* A nack on a channel that may go down: Nack::with_delay and              *)
(* Nack::with_fibonacci_strategy step by step.  Between the await of       *)
(* basic_nack and the await of basic_publish the events channel can be     *)
(* closed (the connection drops, cleanup() or a channel exception).  Here  *)
(* `tasks` holds, per service, the nack call that is between the two.      *)
(***************************************************************************)
\* the events channel of service m goes down
ChannelDown(m) ==
  /\ channel[m].open
  /\ channel' = [channel EXCEPT ![m].open = FALSE, ![m].unacked = {}]
  /\ UNCHANGED <<topology, declared, queues, handler, uuid, published, policy, auditTasks,
                 auditLog, routed, observed, ended, sagaVars, clientVars>>

\* nack_with_delay / nack_with_fibonacci_strategy up to publish_requeue:
\* basic_nack(delivery_tag).await?, then the count; Ok at once when the
\* retries are exhausted (`r` is what the call computes)
NackBasicNack(m, r, fibo, reason) ==
  /\ handler[m].held
  /\ handler[m].calls = 0
  /\ m \notin DOMAIN tasks
  /\ LET h == handler[m]
         ok == channel[m].open
         done == ok /\ ~r.requeue.publish
     IN  /\ done => Cardinality(auditTasks) < MaxPendingAudit
         /\ channel' = IF ok THEN [channel EXCEPT ![m] = Settle(@, h.delivery.delivery_tag)]
                       ELSE channel
         /\ handler' = [handler EXCEPT
              ![m].calls = @ + 1,
              ![m].terminal = IF ok THEN @ + 1 ELSE @,
              ![m].returned = IF ok /\ r.requeue.publish THEN @
                              ELSE Returned(reason, ok, r.count)]
         /\ tasks' = IF ok /\ r.requeue.publish
                     THEN (m :> [call |-> reason, pc |-> "publish_requeue", r |-> r,
                                 fibo |-> fibo]) @@ tasks
                     ELSE tasks
         /\ ended' = IF done
                     THEN ended \cup {[microservice |-> m, event_id |-> h.event_id,
                                       republished |-> h.chain.n, count |-> r.count,
                                       occurrence |-> r.occurrence, delay |-> r.delay,
                                       fib |-> NextChain(h, fibo).fib, ok |-> TRUE,
                                       max_retries |-> policy.max_retries]}
                     ELSE ended
         /\ auditTasks' = IF done
                          THEN auditTasks \cup
                                 {AuditPayload("audit.dead_letter", h.event_id, m, h.queue_name,
                                               h.processed_event, r.count, h.chain.corr)}
                          ELSE auditTasks
  /\ UNCHANGED <<topology, declared, queues, uuid, published, policy, auditLog, routed,
                 observed, sagaVars, CONNECTION, rwlock, client, mutex, consumers, emitter,
                 PUBLISH_CHANNEL>>

NackWithDelay(m, delay) ==
  /\ handler[m].held
  /\ NackBasicNack(m, with_delay(handler[m].delivery, handler[m].queue_name, delay,
                                 policy.max_retries),
                   FALSE, "delay")

NackWithFibonacciStrategy(m) ==
  /\ handler[m].held
  /\ NackBasicNack(m, with_fibonacci_strategy(handler[m].delivery, handler[m].queue_name,
                                              policy.max_occurrence, policy.max_retries),
                   TRUE, "fibonacci_strategy")

\* publish_requeue: basic_publish(..).await?, Err on a channel that is down;
\* after Ok the EventHandler spawns the audit.dead_letter task
NackPublishRequeue(m) ==
  /\ m \in DOMAIN tasks
  /\ LET h == handler[m]
         r == tasks[m].r
         ok == channel[m].open
         msg == Message(r.requeue.exchange, r.requeue.routing_key, r.requeue.data,
                        r.requeue.headers, r.requeue.app_id, r.requeue.message_id,
                        r.requeue.expiration, r.requeue.content_type,
                        NextChain(h, tasks[m].fibo))
     IN  /\ ok => Cardinality(auditTasks) < MaxPendingAudit
         /\ queues' = IF ok
                      THEN Enqueue(queues, Route(topology, r.requeue.exchange,
                                                 r.requeue.routing_key, r.requeue.headers),
                                   msg)
                      ELSE queues
         /\ handler' = [handler EXCEPT ![m].returned = Returned(tasks[m].call, ok, r.count)]
         /\ auditTasks' = IF ok
                          THEN auditTasks \cup
                                 {AuditPayload("audit.dead_letter", h.event_id, m, h.queue_name,
                                               h.processed_event, r.count, h.chain.corr)}
                          ELSE auditTasks
  /\ tasks' = [x \in DOMAIN tasks \ {m} |-> tasks[x]]
  /\ UNCHANGED <<topology, declared, channel, uuid, published, policy, auditLog, routed,
                 observed, ended, sagaVars, CONNECTION, rwlock, client, mutex, consumers,
                 emitter, PUBLISH_CHANNEL>>

NextNack ==
  \/ \E m \in AvailableMicroservices, event \in MicroserviceEvent : PublishEvent(m, event)
  \/ \E payload \in auditTasks : PublishAuditEvent(payload)
  \/ \E m \in AvailableMicroservices : Deliver(m)
  \/ \E m \in AvailableMicroservices : HandlerAck(m)
  \/ \E m \in AvailableMicroservices, delay \in Delays : NackWithDelay(m, delay)
  \/ \E m \in AvailableMicroservices : NackWithFibonacciStrategy(m)
  \/ \E m \in AvailableMicroservices : NackPublishRequeue(m)
  \/ \E m \in AvailableMicroservices : ChannelDown(m)
  \/ \E q \in DOMAIN queues : Expire(q)

SpecNack == InitRetry /\ [][NextNack]_vars

(***************************************************************************)
(* Claims                                                                  *)
(***************************************************************************)
HasBinding(src, dst) == \E b \in topology.bindings : b.src = src /\ b.dst = dst

\* C10: after create_header_consumers ran for a service with events list S
\* (whatever lists it ran with before), for every event tag E the intake
\* queue is bound to exchange <E> iff E is in S, the requeue queue is bound to
\* <E>_requeue iff E is in S, and the exchange <E>_<queue> exists iff E is in S.
C10_SubscriptionMinimality ==
  \A m \in AvailableMicroservices :
    declared[m] # Undeclared =>
      \A E \in MicroserviceEvent :
        LET q == EventsQueueName(m) IN
        /\ HasBinding(E, q) <=> E \in declared[m]
        /\ HasBinding(E \o "_requeue", q \o "_matching_requeue") <=> E \in declared[m]
        /\ (E \o "_" \o q) \in ExchangeNames(topology) <=> E \in declared[m]

\* a service re-declared with a smaller list than it had before
C10_Witness ==
  /\ declared["auth"] = {"test.image"}
  /\ declared["social"] = {}
  /\ "auth.deleted_user" \in ExchangeNames(topology)
  /\ "test.image_auth_match_commands" \in ExchangeNames(topology)
  /\ HasBinding("test.image", "auth_match_commands")

\* the messages waiting in the queues, with the queue each is in
Waiting ==
  UNION {{[queue |-> q, msg |-> queues[q][i]] : i \in 1..Len(queues[q])} :
         q \in DOMAIN queues}

AuditRecords == auditTasks \cup auditLog

\* C1: on the delivery tag of a dispatched delivery the library issues at most
\* one basic_ack / basic_nack, whatever calls are made on the handler.
C1_AtMostOneTerminal ==
  \A m \in AvailableMicroservices :
    handler[m].held => handler[m].terminal <= 1

\* C2: the x-retry-count of a requeued message is the count of the nacked
\* delivery (0 when it had none) plus one, and the counts seen on successive
\* deliveries of one message id are strictly increasing.
C2_RetryCountIncrements ==
  /\ \A w \in Waiting :
       w.msg.chain.n > 0 =>
         /\ "x-retry-count" \in DOMAIN w.msg.headers
         /\ w.msg.headers["x-retry-count"] = LongLongInt(w.msg.chain.seen + 1)
  /\ \A m \in AvailableMicroservices :
       \A i, j \in 1..Len(observed[m]) :
         (i < j /\ observed[m][i].id = observed[m][j].id) =>
           observed[m][i].count < observed[m][j].count

\* three deliveries of one message id, the last with x-retry-count 2
C2_Witness ==
  \E i, j, k \in 1..Len(observed["auth"]) :
    /\ i < j /\ j < k
    /\ observed["auth"][i].id = observed["auth"][k].id
    /\ observed["auth"][j].id = observed["auth"][k].id
    /\ observed["auth"][i].count = 0
    /\ observed["auth"][k].count = 2

\* the deliveries of message id `id` dispatched in service m so far
DeliveriesOf(m, id) ==
  Cardinality({i \in 1..Len(observed[m]) : observed[m][i].id = id})

\* C3: when every delivery of a message is nacked with max_retries = R, the
\* nack that ends the loop comes after exactly R republishes, has new count
\* R + 1, returns Ok with it, leaves the message in none of the service's
\* queues, and at most R + 1 deliveries were dispatched.
C3_ExactlyRRepublishes ==
  \A e \in ended :
    /\ e.republished = e.max_retries
    /\ e.count = e.max_retries + 1
    /\ e.ok
    /\ DeliveriesOf(e.microservice, e.event_id) <= e.max_retries + 1
    /\ \A w \in Waiting :
         w.queue \in {EventsQueueName(e.microservice),
                      EventsQueueName(e.microservice) \o "_matching_requeue"}
           => w.msg.message_id # Some(e.event_id)

\* a retry loop with max_retries = 2 has ended after its third delivery
C3_Witness ==
  \E e \in ended :
    /\ e.max_retries = 2
    /\ e.republished = 2
    /\ DeliveriesOf(e.microservice, e.event_id) = 3

\* C4: a requeued event is published to matching_requeue_exchange with empty
\* routing key, without all-micro and with micro = the nacking service's
\* queue; it waits only in that service's requeue queue and, after the TTL,
\* only in that service's intake queue, and only that service gets it.
C4_TargetedRequeue ==
  /\ \A w \in Waiting :
       w.msg.chain.n > 0 =>
         /\ w.queue \in {w.msg.chain.owner, w.msg.chain.owner \o "_matching_requeue"}
         /\ "all-micro" \notin DOMAIN w.msg.headers
         /\ "micro" \in DOMAIN w.msg.headers
         /\ w.msg.headers["micro"] = LongString(w.msg.chain.owner)
         /\ w.msg.routing_key = ""
         /\ w.msg.exchange = IF w.queue = w.msg.chain.owner THEN MATCHING
                             ELSE MATCHING_REQUEUE
  /\ \A m \in AvailableMicroservices :
       (handler[m].held /\ handler[m].chain.n > 0) =>
         handler[m].chain.owner = EventsQueueName(m)

\* the event reached auth and social, auth nacked it, the TTL ran out and
\* the requeued message is back in auth's intake queue
C4_Witness ==
  /\ \E r \in routed : r.queues = {EventsQueueName("auth"), EventsQueueName("social")}
  /\ \E w \in Waiting :
       /\ w.queue = EventsQueueName("auth")
       /\ w.msg.chain.n = 1
       /\ w.msg.chain.owner = EventsQueueName("auth")

\* C5: the correlation id of an event (the message-id of publish_event, or the
\* id the dispatcher made up for a delivery without one) is the message-id of
\* every retried message, the event_id of every handler context and the
\* event_id of every audit record of it; each audit.published record carries
\* the message-id of the publish it reports.
C5_CorrelationPreserved ==
  /\ \A w \in Waiting :
       /\ w.msg.chain.corr # 0 => w.msg.message_id = Some(w.msg.chain.corr)
       /\ w.msg.chain.n > 0 => w.msg.chain.corr # 0
  /\ \A m \in AvailableMicroservices :
       handler[m].held =>
         /\ handler[m].event_id = handler[m].chain.corr
         /\ handler[m].delivery.message_id = Some(handler[m].chain.corr)
  /\ \A a \in AuditRecords :
       /\ a.event_id = a.corr
       /\ a.kind = "audit.published" => \E r \in routed : r.id = a.event_id
  /\ \A w \in Waiting :
       (w.msg.chain.n = 0 /\ w.msg.app_id.some) =>
         \E r \in routed : w.msg.message_id = Some(r.id) /\ w.queue \in r.queues

\* a published event was nacked and redelivered, and its dead_letter record
\* is out
C5_Witness ==
  /\ \E a \in AuditRecords : a.kind = "audit.dead_letter" /\ \E r \in routed : r.id = a.event_id
  /\ \E m \in AvailableMicroservices :
       handler[m].held /\ handler[m].chain.n = 1

\* a delivery without message-id was nacked and redelivered
FabricatedIdRedelivered ==
  \E m \in AvailableMicroservices :
    /\ handler[m].held
    /\ handler[m].chain.n = 1
    /\ routed = {}

\* the Fibonacci numbers fib(1) .. fib(5)
FibTable == <<1, 1, 2, 3, 5>>

\* the occurrence of the k-th retry with max_occurrence M: 1, 2, .., M, 1, ..
Cycle(k, M) == ((k - 1) % M) + 1

Copies(q, id) ==
  Cardinality({i \in 1..Len(queues[q]) :
                 queues[q][i].message_id = Some(id) /\ queues[q][i].chain.n = 0})

\* C9: an event published by publish_event is enqueued in the intake queue
\* of exactly the services whose declared list has its tag, once in each.
C9_BroadcastToSubscribers ==
  \A r \in routed :
    /\ r.queues = {EventsQueueName(m) : m \in {x \in AvailableMicroservices :
                                                 r.event \in declared[x]}}
    /\ \A q \in DOMAIN queues : Copies(q, r.id) <= 1
    /\ \A m \in AvailableMicroservices :
         \* nothing was dispatched in m yet: what the publish enqueued is there
         channel[m].next_tag = 1 =>
           Copies(EventsQueueName(m), r.id) = IF r.event \in declared[m] THEN 1 ELSE 0

\* one service subscribes to the tag and has the event in its intake queue,
\* the other does not subscribe and has nothing
C9_Witness ==
  \E r \in routed :
    /\ r.event \in declared["auth"]
    /\ r.event \notin declared["social"]
    /\ Len(queues[EventsQueueName("auth")]) = 1
    /\ queues[EventsQueueName("auth")][1].message_id = Some(r.id)
    /\ queues[EventsQueueName("social")] = <<>>

\* the envelopes published to reply_to_saga
Envelopes ==
  {queues[REPLY_TO_SAGA][i].data : i \in 1..Len(queues[REPLY_TO_SAGA])}

\* C7: every key of previousPayload that begins with __ is in the payload of
\* the envelope published to reply_to_saga, with the value it had.
C7_MetadataSurvives ==
  \A e \in Envelopes :
    \A key \in DOMAIN e.previous_payload :
      StartsWith(key, "__") =>
        /\ key \in DOMAIN e.payload
        /\ e.payload[key] = e.previous_payload[key]

\* C8: a CommandHandler.ack with a value that is not a JSON object returns
\* InvalidPayload, publishes nothing and neither acks nor nacks the delivery.
C8_InvalidPayloadNoEffect ==
  [][\A m \in AvailableMicroservices :
       (/\ command_handler[m].held
        /\ command_handler'[m].held
        /\ command_handler'[m].calls = command_handler[m].calls + 1
        /\ command_handler'[m].arg \notin {"Object", "nack"})
       => /\ command_handler'[m].last = "InvalidPayload"
          /\ queues' = queues
          /\ saga_channel' = saga_channel
          /\ command_handler'[m].terminal = command_handler[m].terminal]_vars

\* ack(null) returned InvalidPayload: the step is still unacknowledged and
\* reply_to_saga is empty
C8_Witness ==
  \E m \in AvailableMicroservices :
    /\ command_handler[m].held
    /\ command_handler[m].arg = "Null"
    /\ command_handler[m].last = "InvalidPayload"
    /\ command_handler[m].delivery.delivery_tag \in saga_channel[m].unacked
    /\ queues[REPLY_TO_SAGA] = <<>>

Returns(t) == tasks[t].pc \notin {"idle", "returned"} /\ tasks'[t].pc = "returned"

\* C13: when a reconnect() returns Ok and nothing was closed while it ran, the
\* connection, the events channel and the saga channel are all connected, which
\* is the state in which health_check returns Ok.
C13_ReconnectRestoresHealth ==
  [][\A t \in Tasks :
       (/\ tasks[t].call \in {"reconnect", "reconnect_task"}
        /\ Returns(t)
        /\ tasks'[t].result = "Ok"
        /\ ~tasks'[t].disturbed) => AllConnected']_vars

\* the connection was closed, a reconnect() returned Ok, all is connected again
C13_Witness ==
  /\ CONNECTION.closes = 1
  /\ \E t \in Tasks : /\ tasks[t].call = "reconnect"
                      /\ tasks[t].result = "Ok"
                      /\ tasks[t].replaced
                      /\ ~tasks[t].disturbed
  /\ AllConnected

\* the spawned reconnect tasks that have set the flag and are inside reconnect()
ReconnectTasks ==
  {t \in Tasks : /\ tasks[t].call = "reconnect_task"
                 /\ tasks[t].pc \notin {"set_reconnecting", "returned"}}

\* C14: at most one background reconnect task is running at any time.
C14_AtMostOneReconnectTask == Cardinality(ReconnectTasks) <= 1

\* a lock the health check of task t needs is held by someone else
LockHeld(t) ==
  \/ mutex.events_channel # 0
  \/ mutex.saga_channel # 0
  \/ rwlock.writer \notin {0, t}
  \/ rwlock.readers # {}

\* C15: a health_check during which nothing was closed returns Ok only when the
\* connection and both channels are connected, returns Ok or Timeout when they
\* all were connected at the call, Timeout then only with a lock held by
\* someone else; an Unhealthy result names a component that is not connected,
\* and a Timeout comes with a lock held or a connect in progress.
C15_HealthCheckResult ==
  [][\A t \in Callers :
       (/\ tasks[t].pc = "health_check"
        /\ Returns(t)
        /\ ~tasks'[t].disturbed) =>
         LET result == tasks'[t].result
         IN  /\ result = "Ok" => AllConnected
             /\ tasks[t].healthy => result \in {"Ok", "Timeout"}
             /\ (tasks[t].healthy /\ result = "Timeout") => LockHeld(t)
             /\ result = "Timeout" => (LockHeld(t) \/ tasks[t].conn = "connect")
             /\ result = "Unhealthy Events Channel" => ~Connected(client.events_channel)
             /\ result = "Unhealthy Saga Channel" => ~Connected(client.saga_channel)
             /\ result = "Unhealthy Connection" => ~ConnectionConnected
             /\ result \in {"Ok", "Timeout", "Unhealthy Connection", "Unhealthy BackoffError",
                            "Unhealthy Events Channel", "Unhealthy Saga Channel"}]_vars

\* one undisturbed health_check timed out while all was connected, and after
\* the events channel was closed another one named it
C15_Witness ==
  \E t, u \in Callers :
    /\ tasks[t].result = "Timeout" /\ ~tasks[t].disturbed /\ ~tasks[t].replaced
    /\ tasks[u].result = "Unhealthy Events Channel" /\ ~tasks[u].disturbed
    /\ ConnectionConnected /\ Connected(client.saga_channel)

\* C16: a health_check that returns Timeout has not replaced the connection
\* handle (it never writes the channels or the reconnecting flag).
C16_TimeoutLeavesStateUnchanged ==
  \A t \in Callers : tasks[t].result = "Timeout" => ~tasks[t].replaced

\* the first registration of the tag of registration r
FirstRegistration(r) ==
  CHOOSE f \in 1..r : /\ emitter.registered[f] = emitter.registered[r]
                      /\ \A g \in 1..(f - 1) : emitter.registered[g] # emitter.registered[r]

\* the contexts registration r has been handed or holds
Received(r) ==
  {emitter.started[r][i] : i \in 1..Len(emitter.started[r])}
    \cup {emitter.rx[r][i] : i \in 1..Len(emitter.rx[r])}

\* C17: the map keeps, for every tag, the first registration of the tag, and
\* every emitted context is handed to that registration only: a later
\* registration never receives one.
C17_FirstRegistrationWins ==
  /\ \A r \in 1..Len(emitter.registered) :
       /\ emitter.events[emitter.registered[r]] = FirstRegistration(r)
       /\ r # FirstRegistration(r) => Received(r) = {}
       /\ \A d \in Received(r) : d.event = emitter.registered[r]
  /\ \A r \in Registrations : r > Len(emitter.registered) => Received(r) = {}

\* three registrations of one tag, and the first has been handed two contexts
C17_Witness ==
  /\ emitter.registered = <<"test.image", "test.image", "test.image">>
  /\ Len(emitter.started[1]) = 2

\* C18: the invocations of the handler of a tag start in emit order, one
\* after the other: the n-th invocation runs the n-th context accepted for
\* the tag, and no invocation starts while another of the tag is running.
C18_PerTagFifo ==
  /\ \A r \in Registrations :
       /\ \A i \in 1..Len(emitter.started[r]) : emitter.started[r][i].n = i + (emitter.started[r][1].n - 1)
       /\ emitter.running[r] # NoData =>
            emitter.running[r] = emitter.started[r][Len(emitter.started[r])]
  /\ \A e \in MicroserviceEvent :
       Cardinality({r \in Registrations : emitter.running[r].event = e}) <= 1

\* the handlers of two tags run at the same time, one on its second context
C18_Witness ==
  \E r, q \in Registrations :
    /\ emitter.running[r].event = "test.image" /\ emitter.running[r].n = 2
    /\ emitter.running[q].event = "auth.deleted_user"

\* message n has reached the handler of the first registration
Reached(n) == \E i \in 1..Len(emitter.started[1]) : emitter.started[1][i].n = n

ReconnectOk == \E t \in ResumeTasks : tasks[t].pc = "returned" /\ tasks[t].result = "Ok"

\* C12: once reconnect() has returned Ok after the connection was closed,
\* every message published to the service, before the drop or after the
\* reconnect, reaches the handler that was registered before the drop: when
\* the runtime and the broker have nothing left to do and the connection was
\* not closed a second time, no published message is missing at the handler.
C12_ResumesDelivery ==
  (ReconnectOk /\ CONNECTION.closes <= 1 /\ ~ENABLED ResumeProgress)
    => \A n \in 1..published : Reached(n)

\* the step is a call of ack or of a nack_* on the handler of service m
TerminalCall(m) ==
  handler[m].held /\ handler'[m].held /\ handler'[m].calls = handler[m].calls + 1

\* the audit.dead_letter records of service m about one message
DeadLetters(m, corr) ==
  {a \in AuditRecords : a.kind = "audit.dead_letter" /\ a.microservice = m /\ a.corr = corr}

\* the audit.processed and audit.dead_letter records of service m
TerminalRecords(m, records) ==
  {a \in records : a.microservice = m /\ a.kind \in {"audit.processed", "audit.dead_letter"}}

\* C19: a call of ack or of a nack_* on an EventHandler that returns Ok emits
\* one audit record about the handler's event: audit.processed for ack,
\* audit.dead_letter with retry_count equal to the returned count for a nack,
\* and that count is 1 or follows a record with the count before it; a call
\* that returns Err emits nothing, and no other step emits such a record.
C19_AuditPerTerminalAction ==
  [][\A m \in AvailableMicroservices :
       IF TerminalCall(m)
       THEN LET h == handler[m]
                ret == handler'[m].returned
            IN  /\ auditLog' = auditLog
                /\ ~ret.ok => auditTasks' = auditTasks
                /\ ret.ok =>
                     \E a \in auditTasks' :
                       /\ auditTasks' = auditTasks \cup {a}
                       /\ a.event_id = h.event_id
                       /\ a.microservice = m
                       /\ a.queue_name = h.queue_name
                       /\ a.event = h.processed_event
                       /\ IF ret.call = "ack" THEN a.kind = "audit.processed"
                          ELSE /\ a.kind = "audit.dead_letter"
                               /\ a.retry_count = ret.count
                               /\ \/ ret.count = 1
                                  \/ \E b \in DeadLetters(m, a.corr) :
                                       b.retry_count = ret.count - 1
       ELSE TerminalRecords(m, auditTasks' \cup auditLog')
              \subseteq TerminalRecords(m, AuditRecords)]_vars

\* a message was nacked three times and its fourth delivery was acked:
\* audit.dead_letter records with counts 1, 2, 3 and one audit.processed
C19_Witness ==
  /\ handler["auth"].held
  /\ handler["auth"].returned = Returned("ack", TRUE, 0)
  /\ HeaderInt(handler["auth"].delivery.headers, "x-retry-count") = 3
  /\ \A k \in 1..3 :
       \E a \in DeadLetters("auth", handler["auth"].chain.corr) : a.retry_count = k
  /\ Cardinality(DeadLetters("auth", handler["auth"].chain.corr)) = 3
  /\ \E a \in AuditRecords :
       a.kind = "audit.processed" /\ a.corr = handler["auth"].chain.corr

\* C20: once the audit topology is declared, an audit event of each of the
\* four kinds, published on audit_exchange with its tag as routing key, is
\* enqueued in exactly one queue, audit_<kind>_commands.
C20_AuditTagsRouted ==
  AUDIT \in ExchangeNames(topology) =>
    \A kind \in DOMAIN AuditQueue :
      Route(topology, AUDIT, kind, FieldTableDefault) = {AuditQueue[kind]}

\* C21: handling a delivery from an audit queue publishes no audit event:
\* no step of handle_audit_event or of an AuditHandler (ack, audit_ack,
\* nack_with_delay, nack_with_fibonacci_strategy) adds a publish_audit_event
\* task or an audit record; every audit record is about an event of an
\* audited service, and there are no more records than publishes,
\* dispatches and handler calls of business events.
BusinessTransitions ==
  published + (1 + MaxCalls) * (channel["auth"].next_tag - 1)

C21_NoAuditOfAudit ==
  [][/\ (\E q \in AuditConsumers : handler'[q] # handler[q])
          => (auditTasks' = auditTasks /\ auditLog' = auditLog)
     /\ \A a \in auditTasks' \cup auditLog' :
          a.microservice \in AuditedMicroservices /\ a.event \in MicroserviceEvent
     /\ Cardinality(auditTasks' \cup auditLog') <= BusinessTransitions']_vars

\* the audit service has acked a received record and nacked a processed
\* record, and all the audit
\* records of the event are out
C21_Witness ==
  /\ handler[AUDIT_RECEIVED_COMMANDS].held
  /\ handler[AUDIT_RECEIVED_COMMANDS].last = "ack"
  /\ handler[AUDIT_RECEIVED_COMMANDS].terminal = 1
  /\ handler[AUDIT_PROCESSED_COMMANDS].held
  /\ handler[AUDIT_PROCESSED_COMMANDS].last \in {"delay", "fibonacci_strategy"}
  /\ handler[AUDIT_PROCESSED_COMMANDS].terminal = 1
  /\ Cardinality(auditLog) >= 3

\* C22: a delivery that cannot be dispatched (the body is not a JSON object,
\* no header value is an event tag, the saga envelope does not decode) is
\* nacked and reaches no handler, and the consume loop goes on: the channel
\* stays open with nothing unacked, and once the loops, handlers and spawned
\* tasks have nothing left to do, both intake queues are empty.
UndispatchableEvent(msg) ==
  msg.data # "json-object" \/ find_event_values(msg.headers) = {}

UndispatchableStep(msg) == msg.data.command \notin StepCommand

EventNacked ==
  /\ channel'["auth"].next_tag # channel["auth"].next_tag
  /\ UndispatchableEvent(Head(queues[EventsQueueName("auth")]))

StepNacked ==
  /\ saga_channel'["auth"].next_tag # saga_channel["auth"].next_tag
  /\ UndispatchableStep(Head(queues[SagaQueueName("auth")]))

C22_DispatchErrorsSkipped ==
  /\ [][/\ EventNacked =>
            /\ handler' = handler /\ observed' = observed /\ auditTasks' = auditTasks
            /\ channel'["auth"].open /\ channel'["auth"].unacked = {}
            /\ queues'[EventsQueueName("auth")] = Tail(queues[EventsQueueName("auth")])
        /\ StepNacked =>
            /\ command_handler' = command_handler
            /\ saga_channel'["auth"].open /\ saga_channel'["auth"].unacked = {}
            /\ queues'[SagaQueueName("auth")] = Tail(queues[SagaQueueName("auth")])]_vars
  /\ []((~ENABLED DispatchProgress) =>
          /\ queues[EventsQueueName("auth")] = <<>>
          /\ queues[SagaQueueName("auth")] = <<>>
          /\ channel["auth"].open /\ saga_channel["auth"].open)

\* an event and a step were nacked by the dispatchers, and the event and the
\* step that followed them have reached their handlers
C22_Witness ==
  /\ handler["auth"].held
  /\ handler["auth"].delivery.delivery_tag = 2
  /\ Len(observed["auth"]) = 1
  /\ command_handler["auth"].held
  /\ command_handler["auth"].delivery.delivery_tag = 2


\* a commence_saga call of task t that has returned Ok
CommenceSagaOk(t) == tasks[t].call = "commence_saga" /\ tasks[t].result = "Ok"

\* the message of task t's commence_saga is in the commence_saga queue
InCommenceSagaQueue(t) ==
  /\ COMMENCE_SAGA \in DOMAIN queues
  /\ \E i \in 1..Len(queues[COMMENCE_SAGA]) : queues[COMMENCE_SAGA][i].chain.corr = t

C25_SharedConnectedHandle ==
  \A t \in Publishers :
    tasks[t].handle # 0
      => /\ PUBLISH_CHANNEL.set
         /\ tasks[t].handle = PUBLISH_CHANNEL.arc
         /\ tasks[t].connected


\* C24: cleanup() always returns normally: a failure to close the events
\* channel, the saga channel or the connection, or to obtain a connection
\* because the broker is unreachable, never surfaces as an error or a panic.
C24_CleanupReturns ==
  \A t \in Callers :
    (tasks[t].call = "cleanup" /\ tasks[t].pc = "returned") => tasks[t].result = "returned"


\* the headers a requeue publish may change: the counters and, for an event,
\* the routing headers
RequeueHeaders(event) ==
  {"x-retry-count", "x-occurrence"} \cup (IF event THEN {"all-micro", "micro"} ELSE {})

\* msg, the requeue publish of the nack of handler context h, against the
\* envelope h.delivery
RequeueFrame(h, msg, event) ==
  /\ msg.data = h.delivery.data
  /\ msg.app_id = h.delivery.app_id
  /\ msg.message_id = h.delivery.message_id
  /\ msg.delivery_mode = 2
  /\ \/ /\ \E delay \in Delays : msg.expiration = Some(ToString(delay))
        /\ "x-occurrence" \in DOMAIN msg.headers
             <=> "x-occurrence" \in DOMAIN h.delivery.headers
        /\ "x-occurrence" \in DOMAIN msg.headers
             => msg.headers["x-occurrence"] = h.delivery.headers["x-occurrence"]
     \/ /\ "x-occurrence" \in DOMAIN msg.headers
        /\ msg.expiration
             = Some(ToString(fibonacci(HeaderInt(msg.headers, "x-occurrence")) * 1000))
  /\ \A k \in (DOMAIN msg.headers \cup DOMAIN h.delivery.headers) \ RequeueHeaders(event) :
       /\ k \in DOMAIN msg.headers
       /\ k \in DOMAIN h.delivery.headers
       /\ msg.headers[k] = h.delivery.headers[k]
  /\ event => /\ "all-micro" \notin DOMAIN msg.headers
              /\ "micro" \in DOMAIN msg.headers
              /\ msg.headers["micro"] = LongString(h.queue_name)

\* the messages a step has added to the queues
Published ==
  {queues'[q][Len(queues'[q])] : q \in {x \in DOMAIN queues : Len(queues'[x]) > Len(queues[x])}}

\* C26: every requeue publish of the Retry Engine carries the body, app-id and
\* message-id of the nacked envelope unchanged, delivery-mode 2 and the delay
\* in milliseconds as expiration, and the envelope's headers except for
\* x-retry-count, x-occurrence (Fibonacci only) and, for events, all-micro
\* removed and micro set.
C26_RequeueFrame ==
  [][\A m \in AvailableMicroservices :
       /\ (handler[m].held /\ handler'[m].terminal = handler[m].terminal + 1
             /\ handler'[m].returned.call \in {"delay", "fibonacci_strategy"})
            => \A msg \in Published : RequeueFrame(handler[m], msg, TRUE)
       /\ (command_handler[m].held
             /\ command_handler'[m].terminal = command_handler[m].terminal + 1
             /\ command_handler'[m].arg = "nack")
            => \A msg \in Published : RequeueFrame(command_handler[m], msg, FALSE)]_vars


\* C27: the envelope CommandHandler.ack(next_payload) publishes to
\* reply_to_saga equals the received one in microservice, command, sagaId,
\* previousPayload and isCurrentStep, has status success, and the keys of its
\* payload are exactly the keys of previousPayload that begin with __ and
\* the keys of next_payload.
C27_ReplyEnvelope ==
  [][\A m \in AvailableMicroservices :
       (/\ command_handler[m].held
        /\ command_handler'[m].calls = command_handler[m].calls + 1
        /\ command_handler'[m].arg = "Object"
        /\ Len(queues'[REPLY_TO_SAGA]) = Len(queues[REPLY_TO_SAGA]) + 1)
       => LET e == queues'[REPLY_TO_SAGA][Len(queues'[REPLY_TO_SAGA])].data
              step == command_handler[m].step
          IN  /\ e.microservice = step.microservice
              /\ e.command = step.command
              /\ e.saga_id = step.saga_id
              /\ e.previous_payload = step.previous_payload
              /\ e.is_current_step = step.is_current_step
              /\ e.status = "success"
              /\ \E next_payload \in NextPayloads :
                   /\ next_payload.kind = "Object"
                   /\ DOMAIN e.payload
                        = {key \in DOMAIN step.previous_payload : StartsWith(key, "__")}
                            \cup DOMAIN next_payload.map]_vars


\* C28: CommandHandler.ack acks the saga delivery only after the reply was
\* published to reply_to_saga: a call that sends basic_ack has published its
\* reply, and a call whose reply publish fails returns the error and leaves
\* the delivery unacked.
C28_AckAfterReply ==
  [][\A m \in AvailableMicroservices :
       (/\ command_handler[m].held
        /\ command_handler'[m].calls = command_handler[m].calls + 1
        /\ command_handler'[m].arg = "Object")
       => LET step == command_handler[m].step
              replied ==
                /\ Len(queues'[REPLY_TO_SAGA]) = Len(queues[REPLY_TO_SAGA]) + 1
                /\ queues'[REPLY_TO_SAGA][Len(queues'[REPLY_TO_SAGA])].data.saga_id
                     = step.saga_id
          IN  /\ saga_channel'[m] # saga_channel[m] => replied
              /\ command_handler'[m].terminal # command_handler[m].terminal => replied
              /\ ~replied => /\ command_handler'[m].last = "Err"
                             /\ queues' = queues
                             /\ saga_channel' = saga_channel]_vars

\* an ack whose reply publish failed returned Err with the step still
\* unacked, and the next ack on the same context published and acked
C28_Witness ==
  \E m \in AvailableMicroservices :
    /\ command_handler[m].held
    /\ command_handler[m].calls = 2
    /\ command_handler[m].terminal = 1
    /\ command_handler[m].last = "Ok"
    /\ command_handler[m].arg = "Object"
    /\ saga_channel[m].unacked = {}
    /\ Len(queues[REPLY_TO_SAGA]) = 1


\* C29: when a reconnect attempt started by health_check_with_reconnection
\* terminates, with Ok or with Err, the reconnecting flag is false after that
\* step; and the flag is true only while such an attempt is in progress (a
\* spawned task has set the flag and is still inside reconnect), under every
\* interleaving of health_check_with_reconnection and reconnect calls.
C29_ReconnectingFlag ==
  /\ [](client.reconnecting => ReconnectTasks # {})
  /\ [][\A t \in Tasks :
          (/\ tasks[t].call = "reconnect_task"
           /\ tasks[t].pc # "returned"
           /\ tasks'[t].pc = "returned")
          => ~client'.reconnecting]_vars

\* one spawned reconnect has ended with Err and another with Ok, and the
\* flag is false
C29_Witness ==
  /\ ~client.reconnecting
  /\ \E t, u \in Tasks :
       /\ tasks[t].call = "reconnect_task" /\ tasks[t].pc = "returned"
       /\ tasks[t].result = "Err"
       /\ tasks[u].call = "reconnect_task" /\ tasks[u].pc = "returned"
       /\ tasks[u].result = "Ok"


\* the declarations and bindings of the Topology Builder for service auth
\* are in the broker: running the builder again would change nothing
TopologyDeclared(t) == ConnectAll(t, {"auth"}, declared) = t

\* C30: every successful reconnect() has run the Topology Builder again on
\* the new channels before the dispatchers are restarted: when reconnect
\* returns Ok on a live connection, the queues, exchanges and bindings of the
\* service are declared in the broker.
C30_ReconnectRedeclares ==
  [][\A t \in Tasks :
       (/\ tasks[t].call \in {"reconnect", "reconnect_task"}
        /\ tasks[t].pc # "returned"
        /\ tasks'[t].pc = "returned"
        /\ tasks'[t].result = "Ok"
        /\ CONNECTION'.id \notin CONNECTION'.closed)
       => TopologyDeclared(topology')]_vars

\* C31: in every reachable state, also after reconnect() calls, the role
\* channel a consume loop is subscribed on has prefetch 1, and the broker
\* holds at most one delivery unacked on it.
C31_PrefetchOne ==
  \A c \in consumers :
    ~c.cancelled => c.prefetch_count = 1 /\ Len(c.unacked) <= 1

\* C32: in no reachable state does one task hold the guard of the events
\* channel mutex and the guard of the saga channel mutex at the same time.
C32_NoTwoChannelMutexes ==
  \A t \in Tasks : ~(mutex.events_channel = t /\ mutex.saga_channel = t)

\* task t is at the acquisition of a lock of which task u holds a guard
WaitsFor(t, u) ==
  \/ /\ tasks[t].pc \in {"lock_events_channel", "events_channel"}
     /\ mutex.events_channel = u
  \/ /\ tasks[t].pc \in {"lock_saga_channel", "saga_channel"}
     /\ mutex.saga_channel = u
  \/ /\ tasks[t].pc = "current_connection"
     /\ \/ tasks[t].conn = "write" /\ (u \in rwlock.readers \/ rwlock.writer = u)
        \/ tasks[t].conn \in {"read", "got"} /\ rwlock.writer = u

\* C38: no interleaving of health checks, reconnect, cleanup and the
\* dispatchers ends in a deadlock: no two tasks each wait for a lock of which
\* the other holds a guard, so every waiting task gets its lock.
C38_NoDeadlock ==
  \A t, u \in Tasks : t # u => ~(WaitsFor(t, u) /\ WaitsFor(u, t))

\* C37: concurrent callers of get_connection replace a disconnected
\* connection once: a step that installs a connection replaces one that is
\* disconnected, never one another caller has just installed.
C37_ReplacedOnce ==
  [][CONNECTION'.id # CONNECTION.id => CONNECTION.id \in CONNECTION.closed]_vars

\* C34: the basic_ack a handler issues through its EventHandler goes to the
\* channel its delivery was received on, also when reconnect() replaced the
\* events channel after the delivery was taken from the consumer stream.
C34_AckOnDeliveryChannel ==
  [][\A r \in Registrations :
       (emitter.running[r] # NoData /\ emitter'.running[r] = NoData)
         => emitter.running[r].channel.id = emitter.running[r].consumer]_vars

\* C36: when nack_with_delay or nack_with_fibonacci_strategy returns Err, no
\* terminal action has taken effect: no basic_nack of the delivery reached
\* the broker (the delivery is unacked or went back to its queue with the
\* channel), so the message is not lost.
C36_ErrLeavesDelivery ==
  \A m \in AvailableMicroservices :
    (/\ handler[m].held
     /\ handler[m].returned.call \in {"delay", "fibonacci_strategy"}
     /\ ~handler[m].returned.ok)
      => handler[m].terminal = 0

\* C39: for each saga step delivered to a service, at most one reply envelope
\* of that step (same saga_id and command) is published to reply_to_saga,
\* also when the handler calls ack more than once.
C39_AtMostOneReply ==
  \A i, j \in 1..Len(queues[REPLY_TO_SAGA]) :
    (/\ queues[REPLY_TO_SAGA][i].data.saga_id = queues[REPLY_TO_SAGA][j].data.saga_id
     /\ queues[REPLY_TO_SAGA][i].data.command = queues[REPLY_TO_SAGA][j].data.command)
      => i = j

\* C40: a delivery of an audit queue that is nacked through
\* AuditHandler::nack_with_delay or nack_with_fibonacci_strategy with a new
\* retry count within max_retries is published where it can come back to
\* that queue: the nack's requeue publish reaches a queue of the broker.
C40_AuditRequeueRoutable ==
  [][\A q \in AuditConsumers :
       (/\ handler[q].held
        /\ handler[q].terminal = 0
        /\ handler'[q].terminal = 1
        /\ handler'[q].last \in {"delay", "fibonacci_strategy"}
        /\ calculate_retry_count(handler[q].delivery) <= policy.max_retries)
         => \E target \in DOMAIN queues : Len(queues'[target]) > Len(queues[target])]_vars

\* C33: when the buffer of the tag is full, dispatching a delivery does not
\* block the dispatcher for ever: handle_event returns and releases the
\* events-channel mutex (and with it the lock on the emitter's map).
C33_DispatchReturns ==
  (mutex.events_channel = EventDispatcher) ~> (mutex.events_channel = 0)

\* C35: with a live channel, fair scheduling and handlers that call ack once,
\* every delivery the event dispatcher consumed is eventually acked or nacked,
\* also a delivery whose tag had no handler registered when it was
\* dispatched: the consumer does not stay with an unacked delivery.
C35_EveryDeliverySettled ==
  (\E c \in consumers : c.unacked # <<>>) ~> (\A c \in consumers : c.unacked = <<>>)

====
